---- MODULE Spec2Model ----
(***************************************************************************)
(* Model of the cross-platform session / credential bootstrap of the       *)
(* react-native-app client: the Credential Store (lib/supabase/storage.js),*)
(* the auth operations (lib/supabase/auth.js), the AuthProvider context    *)
(* (context/AuthContext.js), the root layout (app/_layout.js) and the      *)
(* login and profile screens.                                              *)
(*                                                                         *)
(* The backend client (supabase.auth), the storage primitives              *)
(* (localStorage, AsyncStorage, SecureStore) and the Google SDK are        *)
(* external: every call to one of them has an outcome chosen by the        *)
(* environment (a result, an error result, a synchronous throw or an       *)
(* asynchronous rejection).                                                *)
(***************************************************************************)
EXTENDS Integers, Sequences, FiniteSets, TLC

VARIABLES
    platform,        \* Platform.OS: "web", "ios" or "android"
    hasLocalStorage, \* storage.js:8
    GoogleSignin,    \* part_000:8-16, TRUE when the SDK was imported
    localStore,      \* window.localStorage, key -> string or NULL
    memoryStorage,   \* storage.js:11
    asyncStore,      \* AsyncStorage (general unencrypted store)
    secureStore,     \* SecureStore (OS-backed secure store)
    storeRes,        \* what the last Credential Store call gave its caller
    storeOps,        \* number of Credential Store calls made so far
    supaSession,     \* the backend client's current session
    events,          \* auth-state notifications not yet given to the listener
    authSession,     \* AuthContext.js:19
    user,            \* AuthContext.js:20
    isLoading,       \* AuthContext.js:21
    route,           \* the route the router shows
    login,           \* LoginScreen state: isLogin, loading, googleLoading
    alert,           \* title of the last alert shown
    hash,            \* window.location.hash as its parameters
    initAuth,        \* AuthProvider.initializeAuth: pc and captured tokens
    sessionHandler,  \* SessionHandler.handleSession: pc and captured tokens
    initializing,    \* _layout.js:20
    tasks,           \* the calls in flight, one record per slot
    calls            \* number of calls started so far

storeVars == <<localStore, memoryStorage, asyncStore, secureStore>>
envVars == <<platform, hasLocalStorage, GoogleSignin>>
storeCallVars == <<storeRes, storeOps>>
backendVars == <<supaSession, events>>
providerVars == <<authSession, user, isLoading>>
uiVars == <<route, login, alert>>
bootVars == <<initAuth, sessionHandler, initializing>>
appVars == <<supaSession, events, authSession, user, isLoading, route, login,
             alert, hash, initAuth, sessionHandler, initializing, tasks, calls>>

----------------------------------------------------------------------------
(* Bounds *)

NumKeys == 3        \* how many of KeyList the store specification uses
MaxStoreOps == 3    \* Credential Store calls in one behaviour of SpecStore
MaxTasks == 2       \* calls that can be in flight at the same time
MaxCalls == 2       \* calls started in one behaviour
MaxQueue == 2       \* notifications waiting for the listener

----------------------------------------------------------------------------
(* Strings *)

NULL == "<null>"

\* String.prototype.includes
includes(s, w) ==
    \E i \in 1..(Len(s) - Len(w) + 1) : SubSeq(s, i, i + Len(w) - 1) = w

\* JSON.stringify of a string value: the value in double quotes
Stringify(v) == "\"" \o v \o "\""

\* JSON.parse succeeds on the strings Stringify produces
IsJson(s) ==
    /\ Len(s) >= 2
    /\ SubSeq(s, 1, 1) = "\""
    /\ SubSeq(s, Len(s), Len(s)) = "\""

Parse(s) == SubSeq(s, 2, Len(s) - 1)

\* the routing predicate of the native adapter (storage.js:64, 79, 94)
isSensitiveKey(key) ==
    includes(key, "auth") \/ includes(key, "token") \/ includes(key, "refresh")

----------------------------------------------------------------------------
(* Keys and values *)

MetadataKeys == {"lastSignIn", "userEmail", "userPreferences", "authProvider"}

KeyList == <<"supabase.auth.token", "userPreferences", "authProvider",
             "refreshedAt", "theme">>

Min(a, b) == IF a < b THEN a ELSE b

StoreKeys == {KeyList[i] : i \in 1..Min(NumKeys, Len(KeyList))}
AppValues == {"v1"}

AllKeys == {KeyList[i] : i \in 1..Len(KeyList)}
               \cup MetadataKeys \cup {"lastSignUpAttempt"}

EmptyStore == [k \in AllKeys |-> NULL]

\* the four stores as one value, so that the operations are operators
Stores == [local |-> localStore, memory |-> memoryStorage,
           async |-> asyncStore, secure |-> secureStore]

SetStores(s) ==
    /\ localStore' = s.local
    /\ memoryStorage' = s.memory
    /\ asyncStore' = s.async
    /\ secureStore' = s.secure

\* outcomes of one call of a storage primitive
PrimOutcomes == {"ok", "throw", "reject"}

Put(m, key, v) == [m EXCEPT ![key] = v]

\* a removal that empties the whole store, as localStorage.clear() would
Del_clear(m, key) == [k \in DOMAIN m |-> NULL]

Del(m, key) == [m EXCEPT ![key] = NULL]

RECURSIVE DelAll(_, _)
DelAll(m, keys) ==
    IF keys = {} THEN m
    ELSE LET k == CHOOSE x \in keys : TRUE
         IN DelAll(Del(m, k), keys \ {k})

Res(s, out, val) == [stores |-> s, out |-> out, val |-> val]

----------------------------------------------------------------------------
(* Credential Store: lib/supabase/storage.js                               *)
(* Each operation is an operator from the stores, its arguments and the    *)
(* outcome f of the storage primitive it calls to the new stores and what  *)
(* the caller receives:                                                    *)
(*   "value"     the stored string or NULL                                 *)
(*   "undefined" normal completion without a value                         *)
(*   "null"      the null of a catch block                                 *)
(*   "okpair"    { error: null }                                           *)
(*   "datapair"  { data, error: null }                                     *)
(*   "errpair"   { error } or { data: null, error }                        *)
(*   "rejected"  the returned promise rejects: an exception for the caller *)
(***************************************************************************)

isWeb == platform = "web"

webGetItem(st, key, f) ==
    IF hasLocalStorage
    THEN IF f = "ok" THEN Res(st, "value", st.local[key])
         ELSE Res(st, "null", NULL)
    ELSE Res(st, "value", st.memory[key])

webSetItem(st, key, value, f) ==
    IF hasLocalStorage
    THEN IF f = "ok"
         THEN Res([st EXCEPT !.local = Put(st.local, key, value)], "undefined", NULL)
         ELSE Res(st, "null", NULL)
    ELSE Res([st EXCEPT !.memory = Put(st.memory, key, value)], "undefined", NULL)

webRemoveItem(st, key, f) ==
    IF hasLocalStorage
    THEN IF f = "ok"
         THEN Res([st EXCEPT !.local = Del(st.local, key)], "undefined", NULL)
         ELSE Res(st, "null", NULL)
    ELSE Res([st EXCEPT !.memory = Del(st.memory, key)], "undefined", NULL)

\* The native adapter returns the primitive's promise without awaiting it:
\* a synchronous throw is caught, a rejection passes through to the caller.
nativeGetItem(st, key, f) ==
    CASE f = "throw" -> Res(st, "null", NULL)
      [] f = "reject" -> Res(st, "rejected", NULL)
      [] OTHER -> IF isSensitiveKey(key)
                  THEN Res(st, "value", st.secure[key])
                  ELSE Res(st, "value", st.async[key])

nativeSetItem(st, key, value, f) ==
    CASE f = "throw" -> Res(st, "null", NULL)
      [] f = "reject" -> Res(st, "rejected", NULL)
      [] OTHER -> IF isSensitiveKey(key)
                  THEN Res([st EXCEPT !.secure = Put(st.secure, key, value)],
                           "undefined", NULL)
                  ELSE Res([st EXCEPT !.async = Put(st.async, key, value)],
                           "undefined", NULL)

nativeRemoveItem(st, key, f) ==
    CASE f = "throw" -> Res(st, "null", NULL)
      [] f = "reject" -> Res(st, "rejected", NULL)
      [] OTHER -> IF isSensitiveKey(key)
                  THEN Res([st EXCEPT !.secure = Del(st.secure, key)],
                           "undefined", NULL)
                  ELSE Res([st EXCEPT !.async = Del(st.async, key)],
                           "undefined", NULL)

\* ExpoSecureStoreAdapter = isWeb ? webStorageAdapter : { ... }
getItem(st, key, f) ==
    IF isWeb THEN webGetItem(st, key, f) ELSE nativeGetItem(st, key, f)

setItem(st, key, value, f) ==
    IF isWeb THEN webSetItem(st, key, value, f) ELSE nativeSetItem(st, key, value, f)

removeItem(st, key, f) ==
    IF isWeb THEN webRemoveItem(st, key, f) ELSE nativeRemoveItem(st, key, f)

\* the write, read and delete shared by the storage.* helpers on web
webWrite(st, key, value) ==
    IF hasLocalStorage
    THEN [st EXCEPT !.local = Put(st.local, key, value)]
    ELSE [st EXCEPT !.memory = Put(st.memory, key, value)]

webRead(st, key) ==
    IF hasLocalStorage THEN st.local[key] ELSE st.memory[key]

webDelete(st, keys) ==
    IF hasLocalStorage
    THEN [st EXCEPT !.local = DelAll(st.local, keys)]
    ELSE [st EXCEPT !.memory = DelAll(st.memory, keys)]

\* on web only localStorage can fail; the in-memory object cannot
webFails(f) == hasLocalStorage /\ f # "ok"

save(st, key, value, f) ==
    IF isWeb
    THEN IF webFails(f) THEN Res(st, "errpair", NULL)
         ELSE Res(webWrite(st, key, Stringify(value)), "okpair", NULL)
    ELSE IF f # "ok" THEN Res(st, "errpair", NULL)
         ELSE Res([st EXCEPT !.async = Put(st.async, key, Stringify(value))],
                  "okpair", NULL)

get(st, key, f) ==
    LET failed == IF isWeb THEN webFails(f) ELSE f # "ok"
        value == IF isWeb THEN webRead(st, key) ELSE st.async[key]
    IN  IF failed THEN Res(st, "errpair", NULL)
        ELSE IF value = NULL THEN Res(st, "datapair", NULL)
        ELSE IF IsJson(value) THEN Res(st, "datapair", Parse(value))
        ELSE Res(st, "errpair", NULL)

remove(st, key, f) ==
    IF isWeb
    THEN IF webFails(f) THEN Res(st, "errpair", NULL)
         ELSE Res(webDelete(st, {key}), "okpair", NULL)
    ELSE IF f # "ok" THEN Res(st, "errpair", NULL)
         ELSE Res([st EXCEPT !.async = Del(st.async, key)], "okpair", NULL)

saveSecure(st, key, value, f) ==
    IF isWeb
    THEN IF webFails(f) THEN Res(st, "errpair", NULL)
         ELSE Res(webWrite(st, key, value), "okpair", NULL)
    ELSE IF f # "ok" THEN Res(st, "errpair", NULL)
         ELSE Res([st EXCEPT !.secure = Put(st.secure, key, value)],
                  "okpair", NULL)

getSecure(st, key, parse, f) ==
    LET failed == IF isWeb THEN webFails(f) ELSE f # "ok"
        value == IF isWeb THEN webRead(st, key) ELSE st.secure[key]
    IN  IF failed THEN Res(st, "errpair", NULL)
        ELSE IF value # NULL /\ parse /\ IsJson(value)
             THEN Res(st, "datapair", Parse(value))
        ELSE Res(st, "datapair", value)

removeSecure(st, key, f) ==
    IF isWeb
    THEN IF webFails(f) THEN Res(st, "errpair", NULL)
         ELSE Res(webDelete(st, {key}), "okpair", NULL)
    ELSE IF f # "ok" THEN Res(st, "errpair", NULL)
         ELSE Res([st EXCEPT !.secure = Del(st.secure, key)], "okpair", NULL)

clearMultiple(st, keys, f) ==
    IF isWeb
    THEN IF webFails(f) THEN Res(st, "errpair", NULL)
         ELSE Res(webDelete(st, keys), "okpair", NULL)
    ELSE IF f # "ok" THEN Res(st, "errpair", NULL)
         ELSE Res([st EXCEPT !.async = DelAll(st.async, keys)], "okpair", NULL)

----------------------------------------------------------------------------
(* Sessions, users and the state of the application *)

Emails == {"a@x.com"}            \* the accounts typed into the login form
EarlierAccount == "b@x.com"     \* the account of a session an earlier run left
GoogleAccount == "a@x.com"      \* the account the Google UI signs in

NoUser == [email |-> "none", provider |-> "none"]
NoSession == [access |-> "none", refresh |-> "none", user |-> NoUser]

MkUser(email, provider) == [email |-> email, provider |-> provider]
MkSession(at, rt, u) == [access |-> at, refresh |-> rt, user |-> u]

\* the session the backend issues for a password sign-in / a Google sign-in
EmailSession(e) == MkSession("at-" \o e, "rt-" \o e, MkUser(e, "email"))
GoogleSession(e) == MkSession("gat-" \o e, "grt-" \o e, MkUser(e, "google"))

HomeRoute == "/"
LoginRoute == "/auth/login"
ResetRoute == "/auth/reset-password"
ExternalRoute == "external"     \* the browser has left the application

\* segments[0] === 'auth'
inAuthGroup(r) == r \in {LoginRoute, ResetRoute}

LoginDefaults == [isLogin |-> TRUE, loading |-> FALSE, googleLoading |-> FALSE]

NoHash == [present |-> FALSE, access_token |-> NULL, refresh_token |-> NULL,
           error |-> NULL, search |-> ""]

\* history.replaceState with pathname + search, part_000:176-181
scrubKeepingSearch(h) == [NoHash EXCEPT !.search = h.search]

\* history.replaceState with pathname alone, _layout.js:45-50
scrubToPath(h) == NoHash

\* window.location.hash as text
HashParam(k, v) == IF v = NULL THEN "" ELSE k \o "=" \o v \o "&"

HashStr(h) ==
    IF ~h.present THEN ""
    ELSE LET body == HashParam("access_token", h.access_token)
                     \o HashParam("refresh_token", h.refresh_token)
                     \o HashParam("error", h.error)
         IN "#" \o (IF body = "" THEN "top" ELSE body)

\* a value is truthy in JavaScript when it is neither null nor ''
Truthy(v) == v # NULL /\ v # ""

\* the user the backend resolves an access token to
UserOfToken(at) == MkUser("a@x.com", "google")

\* A bootstrap flow: where it is, the tokens it took from the fragment, and
\* for auth.getSession what it returned (out, session, err) and which
\* backend call produced the result (via); for handleSession whether its
\* call of auth.initGoogleSignIn configured the provider SDK (configured).
BootStart == [pc |-> "mount", at |-> NULL, rt |-> NULL, out |-> "pending",
              session |-> NoSession, err |-> FALSE, via |-> "none",
              configured |-> FALSE]

BackendOutcomes == {"ok", "error", "throw"}

Tasks == 1..MaxTasks

\* tasks[t] for t in Tasks is a call in flight; tasks[0] keeps the record of
\* the call that finished last
Slots == 0..MaxTasks

\* A call in flight.  out is what the auth operation gave its caller
\* ("pending", "returned", "threw"; for handleAuthDeepLink url is its
\* argument, type the type member of what it returned, NULL when it
\* returned null), called whether it has made its backend call (setSession
\* for a deep link, signOut for a sign-out, signInWithIdToken for a native
\* Google sign-in), ret the boolean hasPreviousSignIn returned, err whether the returned error is
\* non-null, failed whether the backend call failed, emits the number of
\* notifications the call caused, wrote the keys it wrote, google the
\* outcome of the provider SDK call it made.
IdleTask == [op |-> "idle", pc |-> "done", email |-> "", isLogin |-> TRUE,
             mounted |-> FALSE, out |-> "pending", err |-> FALSE,
             failed |-> FALSE, session |-> NoSession, usr |-> NoUser,
             emits |-> 0, wrote |-> {}, google |-> "none",
             url |-> "", type |-> NULL, called |-> FALSE, ret |-> NULL]

InitApp ==
    /\ supaSession = NoSession
    /\ events = <<>>
    /\ authSession = NoSession
    /\ user = NoUser
    /\ isLoading = TRUE
    /\ route = HomeRoute
    /\ login = LoginDefaults
    /\ alert = "none"
    /\ hash = NoHash
    /\ initAuth = BootStart
    /\ sessionHandler = BootStart
    /\ initializing = TRUE
    /\ tasks = [t \in Slots |-> IdleTask]
    /\ calls = 0

----------------------------------------------------------------------------
(* Rendering: RootLayoutNav shows the Stack only while isLoading is false  *)
(* (_layout.js:108-122), so the login screen unmounts, and loses its       *)
(* state, when isLoading becomes true or the route leaves /auth/login.     *)
(* A call started by an unmounted screen no longer changes screen state.   *)

LoginVisible(loading, r) == ~loading /\ r = LoginRoute

\* a call that has finished frees its slot and leaves its record in slot 0
Settle(ts) ==
    LET fin == {t \in Tasks : ts[t].pc = "done" /\ ts[t].op # "idle"}
    IN  IF fin = {} THEN ts
        ELSE LET t == CHOOSE x \in fin : TRUE
             IN [ts EXCEPT ![0] = ts[t], ![t] = IdleTask]

Commit(newLoading, newRoute, newLogin, newTasks) ==
    LET unmount == /\ LoginVisible(isLoading, route)
                   /\ ~LoginVisible(newLoading, newRoute)
    IN  /\ isLoading' = newLoading
        /\ route' = newRoute
        /\ login' = IF unmount THEN LoginDefaults ELSE newLogin
        /\ tasks' = IF unmount
                    THEN Settle([t \in Slots |-> [newTasks[t] EXCEPT !.mounted = FALSE]])
                    ELSE Settle(newTasks)

\* supabase.auth emits a notification
Emit(q, event, session) == Append(q, [event |-> event, session |-> session])

CanEmit == Len(events) < MaxQueue

----------------------------------------------------------------------------
(* AuthProvider: context/AuthContext.js *)

\* the listener registered at AuthContext.js:48-60
AuthStateListener ==
    /\ events # <<>>
    /\ LET n == Head(events)
       IN  /\ authSession' = n.session
           /\ user' = n.session.user
           /\ Commit(FALSE, route, login, tasks)
    /\ events' = Tail(events)
    /\ UNCHANGED <<envVars, storeVars, storeCallVars, supaSession, alert, hash,
                   bootVars, calls>>

\* a redirect effect without the test of isLoading at _layout.js:86
redirectTarget_ignoresLoading(session, loading, r) ==
    IF session = NoSession /\ ~inAuthGroup(r) THEN LoginRoute
    ELSE IF session # NoSession /\ inAuthGroup(r) THEN HomeRoute
    ELSE r

\* the redirect effect of RootLayoutNav, _layout.js:85-105
redirectTarget(session, loading, r) ==
    IF loading THEN r
    ELSE IF session = NoSession /\ ~inAuthGroup(r) THEN LoginRoute
    ELSE IF session # NoSession /\ inAuthGroup(r) THEN HomeRoute
    ELSE r

RedirectEffect ==
    /\ route # ExternalRoute
    /\ redirectTarget(authSession, isLoading, route) # route
    /\ Commit(isLoading, redirectTarget(authSession, isLoading, route), login, tasks)
    /\ UNCHANGED <<envVars, storeVars, storeCallVars, backendVars, authSession,
                   user, alert, hash, bootVars, calls>>

----------------------------------------------------------------------------
(* Session bootstrap: auth.getSession (part_000:147-208) called by         *)
(* initializeAuth (AuthContext.js:25-45), and SessionHandler.handleSession *)
(* (_layout.js:23-68).  Effects of a child run before those of its parent, *)
(* so handleSession starts before initializeAuth; both effects run in the  *)
(* same commit, so both have started before any backend call resolves.     *)

\* the session supabase.auth.setSession installs from the two tokens
setSessionResult(at, rt) == MkSession(at, rt, UserOfToken(at))

\* refresh_token: refreshToken || ''
orEmpty(v) == IF Truthy(v) THEN v ELSE ""

\* the fragment branch without the test of part_000:166
getSessionUsesHash_noTokenTest ==
    /\ isWeb
    /\ HashStr(hash) # ""
    /\ includes(HashStr(hash), "access_token") \/ includes(HashStr(hash), "error")

\* part_000:152-166: the fragment branch is taken
getSessionUsesHash ==
    /\ isWeb
    /\ HashStr(hash) # ""
    /\ includes(HashStr(hash), "access_token") \/ includes(HashStr(hash), "error")
    /\ Truthy(hash.access_token)

\* _layout.js:24-36
handleSessionUsesHash ==
    /\ isWeb
    /\ HashStr(hash) # ""
    /\ includes(HashStr(hash), "access_token")
    /\ Truthy(hash.access_token)

\* an initializeAuth that sets the session and forgets the user
InitAuthFinish_sessionOnly(ret) ==
    /\ initAuth' = ret
    /\ authSession' = IF ret.session # NoSession THEN ret.session ELSE authSession
    /\ user' = user
    /\ Commit(FALSE, route, login, tasks)

\* an initializeAuth that resets isLoading in its try block, not in finally
InitAuthFinish_noFinally(ret) ==
    /\ initAuth' = ret
    /\ authSession' = IF ret.session # NoSession THEN ret.session ELSE authSession
    /\ user' = IF ret.session # NoSession THEN ret.session.user ELSE user
    /\ Commit(IF ret.err THEN isLoading ELSE FALSE, route, login, tasks)

\* what initializeAuth does with the result of auth.getSession
InitAuthFinish(ret) ==
    /\ initAuth' = ret
    /\ authSession' = IF ret.session # NoSession THEN ret.session ELSE authSession
    /\ user' = IF ret.session # NoSession THEN ret.session.user ELSE user
    /\ Commit(FALSE, route, login, tasks)

\* auth.initGoogleSignIn (part_000:22-39): whether it calls
\* GoogleSignin.configure
initGoogleSignIn == ~isWeb /\ GoogleSignin

MountSessionHandler ==
    /\ sessionHandler.pc = "mount"
    /\ IF ~isWeb
       THEN /\ sessionHandler' = [sessionHandler EXCEPT !.pc = "done",
                                      !.configured = initGoogleSignIn]
            /\ initializing' = FALSE
       ELSE /\ sessionHandler' =
                IF handleSessionUsesHash
                THEN [sessionHandler EXCEPT !.pc = "setSession",
                          !.at = hash.access_token,
                          !.rt = orEmpty(hash.refresh_token)]
                ELSE [sessionHandler EXCEPT !.pc = "getSession"]
            /\ UNCHANGED initializing
    /\ UNCHANGED <<envVars, storeVars, storeCallVars, backendVars, providerVars,
                   uiVars, hash, initAuth, tasks, calls>>

SessionHandlerSetSession ==
    /\ sessionHandler.pc = "setSession"
    /\ initAuth.pc # "mount"
    /\ \E o \in BackendOutcomes :
        CASE o = "ok" ->
               /\ CanEmit
               /\ supaSession' = setSessionResult(sessionHandler.at, sessionHandler.rt)
               /\ events' = Emit(events, "SIGNED_IN", supaSession')
               /\ hash' = scrubToPath(hash)
               /\ sessionHandler' = [sessionHandler EXCEPT !.pc = "getSession",
                                         !.session = supaSession',
                                         !.via = "setSession"]
               /\ UNCHANGED initializing
          [] o = "error" ->
               /\ hash' = scrubToPath(hash)
               /\ sessionHandler' = [sessionHandler EXCEPT !.pc = "getSession"]
               /\ UNCHANGED <<backendVars, initializing>>
          [] OTHER ->
               /\ sessionHandler' = [sessionHandler EXCEPT !.pc = "done"]
               /\ initializing' = FALSE
               /\ UNCHANGED <<backendVars, hash>>
    /\ UNCHANGED <<envVars, storeVars, storeCallVars, providerVars, uiVars,
                   initAuth, tasks, calls>>

SessionHandlerGetSession ==
    /\ sessionHandler.pc = "getSession"
    /\ initAuth.pc # "mount"
    /\ sessionHandler' = [sessionHandler EXCEPT !.pc = "done"]
    /\ initializing' = FALSE
    /\ UNCHANGED <<envVars, storeVars, storeCallVars, backendVars, providerVars,
                   uiVars, hash, initAuth, tasks, calls>>

MountAuthProvider ==
    /\ initAuth.pc = "mount"
    /\ sessionHandler.pc # "mount"
    /\ initAuth' =
        IF getSessionUsesHash
        THEN [initAuth EXCEPT !.pc = "setSession", !.at = hash.access_token,
                  !.rt = orEmpty(hash.refresh_token)]
        ELSE [initAuth EXCEPT !.pc = "getSession"]
    /\ UNCHANGED <<envVars, storeVars, storeCallVars, backendVars, providerVars,
                   uiVars, hash, sessionHandler, initializing, tasks, calls>>

InitAuthSetSession ==
    /\ initAuth.pc = "setSession"
    /\ \E o \in BackendOutcomes :
        CASE o = "ok" ->
               /\ CanEmit
               /\ supaSession' = setSessionResult(initAuth.at, initAuth.rt)
               /\ events' = Emit(events, "SIGNED_IN", supaSession')
               /\ hash' = scrubKeepingSearch(hash)
               /\ InitAuthFinish([initAuth EXCEPT !.pc = "done",
                      !.out = "returned", !.session = supaSession',
                      !.err = FALSE, !.via = "setSession"])
          [] o = "error" ->
               /\ hash' = scrubKeepingSearch(hash)
               /\ InitAuthFinish([initAuth EXCEPT !.pc = "done",
                      !.out = "returned", !.err = TRUE, !.via = "setSession"])
               /\ UNCHANGED backendVars
          [] OTHER ->
               /\ initAuth' = [initAuth EXCEPT !.pc = "getSession"]
               /\ UNCHANGED <<backendVars, hash, providerVars, uiVars, tasks>>
    /\ UNCHANGED <<envVars, storeVars, storeCallVars, alert, sessionHandler,
                   initializing, calls>>

\* a standard retrieval that answers with the session the other bootstrap
\* flow installed when the client holds none any more
InitAuthGetSession_stale ==
    /\ initAuth.pc = "getSession"
    /\ \E o \in BackendOutcomes :
        InitAuthFinish([initAuth EXCEPT !.pc = "done", !.out = "returned",
            !.session = IF o # "ok" THEN NoSession
                        ELSE IF supaSession = NoSession THEN sessionHandler.session
                        ELSE supaSession,
            !.err = (o # "ok"), !.via = "getSession"])
    /\ UNCHANGED <<envVars, storeVars, storeCallVars, backendVars, alert, hash,
                   sessionHandler, initializing, calls>>

InitAuthGetSession ==
    /\ initAuth.pc = "getSession"
    /\ \E o \in BackendOutcomes :
        InitAuthFinish([initAuth EXCEPT !.pc = "done", !.out = "returned",
            !.session = IF o = "ok" THEN supaSession ELSE NoSession,
            !.err = (o # "ok"), !.via = "getSession"])
    /\ UNCHANGED <<envVars, storeVars, storeCallVars, backendVars, alert, hash,
                   sessionHandler, initializing, calls>>

----------------------------------------------------------------------------
(* Metadata writes of the auth operations: AsyncStorage.setItem called     *)
(* one after the other inside one try block (part_000:112-118, 229-234,    *)
(* 257-263); the first failing write skips the rest.                       *)

\* new Date().toISOString(): a time of this run, or of an earlier one
Now == "ts1"
Earlier == "ts0"

\* writes is a sequence of <<key, value>>; the first ok of them succeed
RECURSIVE writeMetadata(_, _, _)
writeMetadata(m, writes, ok) ==
    IF writes = <<>> \/ ok = 0 THEN m
    ELSE writeMetadata(Put(m, Head(writes)[1], Head(writes)[2]), Tail(writes), ok - 1)

writtenKeys(writes, ok) == {writes[i][1] : i \in 1..Min(ok, Len(writes))}

signInWrites(stamp, email, provider) ==
    <<(<<"lastSignIn", stamp>>), (<<"userEmail", email>>),
      (<<"authProvider", provider>>)>>

signUpWrites(stamp) ==
    <<(<<"lastSignUpAttempt", stamp>>), (<<"authProvider", "email">>)>>

\* AsyncStorage.multiRemove of auth.signOut, part_000:294-299
signOutRemoves(m) == DelAll(m, MetadataKeys)

----------------------------------------------------------------------------
(* LoginScreen.handleEmailAuth (login.js:106-143) through                  *)
(* AuthProvider.signIn / signUp (AuthContext.js:69-88) to                  *)
(* auth.signInWithEmail / signUpWithEmail (part_000:213-268)               *)

\* a new call takes the first free slot
FreeSlot(t) ==
    /\ tasks[t].pc = "done"
    /\ calls < MaxCalls
    /\ \A u \in Tasks : u < t => tasks[u].pc # "done"

\* the record a finished call leaves: its result, without its locals
Done(rec) == [rec EXCEPT !.pc = "done", !.email = "", !.mounted = FALSE]

NewTask(op, email) ==
    [IdleTask EXCEPT !.op = op, !.pc = "backend", !.email = email,
        !.isLogin = login.isLogin, !.mounted = TRUE]

\* setState of the login screen by a call: nothing once it is unmounted
setLogin(t, newLogin) == IF tasks[t].mounted THEN newLogin ELSE login

ToggleLoginMode ==
    /\ LoginVisible(isLoading, route)
    /\ login' = [login EXCEPT !.isLogin = ~login.isLogin]
    /\ UNCHANGED <<envVars, storeVars, storeCallVars, backendVars, providerVars,
                   route, alert, hash, bootVars, tasks, calls>>

\* handleEmailAuth pressed with one of the given addresses, or none, typed
EmailAuthStartWith(t, typed) ==
    /\ FreeSlot(t)
    /\ \E email \in typed \cup {""} :
        IF email = ""
        THEN /\ alert' = "Error"
             /\ UNCHANGED <<isLoading, route, login, tasks, calls>>
        ELSE /\ calls' = calls + 1
             /\ Commit(TRUE, route, [login EXCEPT !.loading = TRUE],
                       [tasks EXCEPT ![t] = NewTask("handleEmailAuth", email)])
             /\ UNCHANGED alert
    /\ UNCHANGED <<envVars, storeVars, storeCallVars, backendVars, authSession,
                   user, hash, bootVars>>

HandleEmailAuthStart(t) ==
    /\ LoginVisible(isLoading, route)
    /\ EmailAuthStartWith(t, Emails)

\* the test of login.js:129 with the negation of isLogin dropped
needsVerification_signIn(done) ==
    /\ done.out = "returned" /\ ~done.err /\ done.isLogin
    /\ done.usr # NoUser /\ done.session = NoSession

\* login.js:127-129: no error, sign-up mode, data.user set, data.session null
needsVerification(done) ==
    /\ done.out = "returned" /\ ~done.err /\ ~done.isLogin
    /\ done.usr # NoUser /\ done.session = NoSession

\* a continuation that drops the session when the call failed
EmailAuthFinish_dropsSession(t, done) ==
    LET bad == done.out = "threw" \/ done.err
    IN  /\ alert' = IF bad THEN "Error" ELSE alert
        /\ authSession' = IF bad THEN NoSession ELSE authSession
        /\ user' = IF bad THEN NoUser ELSE user
        /\ Commit(FALSE, route, setLogin(t, [login EXCEPT !.loading = FALSE]),
                  [tasks EXCEPT ![t] = Done(done)])

\* the caller's continuation once signIn / signUp has returned or thrown:
\* the finally of the context, then login.js:125-142
EmailAuthFinish(t, done) ==
    LET verify == needsVerification(done)
        newAlert == IF done.out = "threw" \/ done.err THEN "Error"
                    ELSE IF verify THEN "Verification Email Sent"
                    ELSE alert
        shown == [login EXCEPT !.loading = FALSE,
                      !.isLogin = IF verify THEN TRUE ELSE login.isLogin]
    IN  /\ alert' = newAlert
        /\ UNCHANGED <<authSession, user>>
        /\ Commit(FALSE, route, setLogin(t, shown),
                  [tasks EXCEPT ![t] = Done(done)])

\* a client that keeps the session it already has when a sign-in succeeds
EmailAuthBackend_keepsFirst(t) ==
    /\ tasks[t].op = "handleEmailAuth"
    /\ tasks[t].pc = "backend"
    /\ LET me == tasks[t]
           granted == EmailSession(me.email)
       IN \E o \in {"ok", "confirm", "error", "throw"} :
           CASE o = "ok" ->
                  /\ CanEmit
                  /\ supaSession' = IF supaSession # NoSession THEN supaSession
                                    ELSE granted
                  /\ events' = Emit(events, "SIGNED_IN", supaSession')
                  /\ tasks' = [tasks EXCEPT ![t] = [me EXCEPT !.pc = "store",
                         !.session = granted, !.usr = granted.user, !.emits = 1]]
                  /\ UNCHANGED <<providerVars, uiVars>>
             [] o = "confirm" ->
                  /\ ~me.isLogin
                  /\ tasks' = [tasks EXCEPT ![t] = [me EXCEPT !.pc = "store",
                         !.usr = MkUser(me.email, "email")]]
                  /\ UNCHANGED <<backendVars, providerVars, uiVars>>
             [] o = "error" ->
                  /\ EmailAuthFinish(t, [me EXCEPT !.out = "returned",
                         !.err = TRUE, !.failed = TRUE])
                  /\ UNCHANGED backendVars
             [] OTHER ->
                  /\ EmailAuthFinish(t, [me EXCEPT !.out = "threw", !.failed = TRUE])
                  /\ UNCHANGED backendVars
    /\ UNCHANGED <<envVars, storeVars, storeCallVars, hash, bootVars, calls>>

EmailAuthBackend(t) ==
    /\ tasks[t].op = "handleEmailAuth"
    /\ tasks[t].pc = "backend"
    /\ LET me == tasks[t]
           granted == EmailSession(me.email)
       IN \E o \in {"ok", "confirm", "error", "throw"} :
           CASE o = "ok" ->
                  /\ CanEmit
                  /\ supaSession' = granted
                  /\ events' = Emit(events, "SIGNED_IN", granted)
                  /\ tasks' = [tasks EXCEPT ![t] = [me EXCEPT !.pc = "store",
                         !.session = granted, !.usr = granted.user, !.emits = 1]]
                  /\ UNCHANGED <<providerVars, uiVars>>
             [] o = "confirm" ->
                  /\ ~me.isLogin
                  /\ tasks' = [tasks EXCEPT ![t] = [me EXCEPT !.pc = "store",
                         !.usr = MkUser(me.email, "email")]]
                  /\ UNCHANGED <<backendVars, providerVars, uiVars>>
             [] o = "error" ->
                  /\ EmailAuthFinish(t, [me EXCEPT !.out = "returned",
                         !.err = TRUE, !.failed = TRUE])
                  /\ UNCHANGED backendVars
             [] OTHER ->
                  /\ EmailAuthFinish(t, [me EXCEPT !.out = "threw", !.failed = TRUE])
                  /\ UNCHANGED backendVars
    /\ UNCHANGED <<envVars, storeVars, storeCallVars, hash, bootVars, calls>>

\* post-call writes outside a try / catch: a failed write becomes the
\* error of the result
EmailAuthStore_surfaces(t) ==
    /\ tasks[t].op = "handleEmailAuth"
    /\ tasks[t].pc = "store"
    /\ LET me == tasks[t]
           writes == IF me.isLogin
                     THEN signInWrites(Now, me.usr.email, "email")
                     ELSE signUpWrites(Now)
       IN \E ok \in 0..Len(writes) :
           /\ asyncStore' = writeMetadata(asyncStore, writes, ok)
           /\ EmailAuthFinish(t, [me EXCEPT !.out = "returned",
                  !.err = (ok < Len(writes)),
                  !.wrote = writtenKeys(writes, ok)])
    /\ UNCHANGED <<envVars, localStore, memoryStorage, secureStore, storeCallVars,
                   backendVars, hash, bootVars, calls>>

EmailAuthStore(t) ==
    /\ tasks[t].op = "handleEmailAuth"
    /\ tasks[t].pc = "store"
    /\ LET me == tasks[t]
           writes == IF me.isLogin
                     THEN signInWrites(Now, me.usr.email, "email")
                     ELSE signUpWrites(Now)
       IN \E ok \in 0..Len(writes) :
           /\ asyncStore' = writeMetadata(asyncStore, writes, ok)
           /\ EmailAuthFinish(t, [me EXCEPT !.out = "returned",
                  !.wrote = writtenKeys(writes, ok)])
    /\ UNCHANGED <<envVars, localStore, memoryStorage, secureStore, storeCallVars,
                   backendVars, hash, bootVars, calls>>

----------------------------------------------------------------------------
(* Sign-out through the context: a profile screen calling                  *)
(* AuthProvider.signOut (part_002:11-22, AuthContext.js:91-105), which     *)
(* calls auth.signOut (part_000:273-306)                                   *)

ProfileVisible == ~isLoading /\ route = HomeRoute /\ user # NoUser

\* auth.signOut signs out of Google first on native when the SDK is there
signOutFirstPc == IF ~isWeb /\ GoogleSignin THEN "google" ELSE "backend"

CtxSignOutStart(t) ==
    /\ ProfileVisible
    /\ FreeSlot(t)
    /\ calls' = calls + 1
    /\ Commit(TRUE, route, login,
              [tasks EXCEPT ![t] = [NewTask("ctxSignOut", user.email)
                                      EXCEPT !.pc = signOutFirstPc]])
    /\ UNCHANGED <<envVars, storeVars, storeCallVars, backendVars, authSession,
                   user, alert, hash, bootVars>>

\* a signOut of the context that clears the session whatever the result
CtxSignOutFinish_always(t, done) ==
    /\ alert' = IF done.out = "threw" \/ done.err THEN "Error" ELSE alert
    /\ authSession' = NoSession
    /\ user' = NoUser
    /\ Commit(FALSE, route, login, [tasks EXCEPT ![t] = Done(done)])

\* the finally of AuthProvider.signOut and the caller's alert
CtxSignOutFinish(t, done) ==
    /\ alert' = IF done.out = "threw" \/ done.err THEN "Error" ELSE alert
    /\ authSession' = IF done.out = "returned" /\ ~done.err THEN NoSession
                      ELSE authSession
    /\ user' = IF done.out = "returned" /\ ~done.err THEN NoUser ELSE user
    /\ Commit(FALSE, route, login, [tasks EXCEPT ![t] = Done(done)])

\* a provider sign-out whose failure ends the context's signOut with an error
ProviderSignOut_fatal(t) ==
    /\ tasks[t].op \in {"ctxSignOut", "handleSignOut"}
    /\ tasks[t].pc = "google"
    /\ \E g \in {"ok", "failed"} :
        IF g = "failed" /\ tasks[t].op = "ctxSignOut"
        THEN CtxSignOutFinish(t, [tasks[t] EXCEPT !.out = "returned",
                 !.err = TRUE, !.google = g])
        ELSE /\ tasks' = [tasks EXCEPT ![t] = [@ EXCEPT !.pc = "backend", !.google = g]]
             /\ UNCHANGED <<providerVars, uiVars>>
    /\ UNCHANGED <<envVars, storeVars, storeCallVars, backendVars, hash, bootVars,
                   calls>>

\* await GoogleSignin.signOut() inside its own try / catch
ProviderSignOut(t) ==
    /\ tasks[t].op \in {"ctxSignOut", "handleSignOut"}
    /\ tasks[t].pc = "google"
    /\ \E g \in {"ok", "failed"} :
        tasks' = [tasks EXCEPT ![t] = [@ EXCEPT !.pc = "backend", !.google = g]]
    /\ UNCHANGED <<envVars, storeVars, storeCallVars, backendVars, providerVars,
                   uiVars, hash, bootVars, calls>>

\* a sign-out that removes the metadata whether or not the backend
\* sign-out returned an error
CtxSignOutBackend_removesAnyway(t) ==
    /\ tasks[t].op = "ctxSignOut"
    /\ tasks[t].pc = "backend"
    /\ LET me == [tasks[t] EXCEPT !.called = TRUE]
       IN \E o \in BackendOutcomes :
           CASE o = "ok" ->
                  /\ CanEmit
                  /\ supaSession' = NoSession
                  /\ events' = Emit(events, "SIGNED_OUT", NoSession)
                  /\ tasks' = [tasks EXCEPT ![t] = [me EXCEPT !.pc = "store",
                                                        !.emits = 1]]
                  /\ UNCHANGED <<providerVars, uiVars>>
             [] o = "error" ->
                  /\ tasks' = [tasks EXCEPT ![t] = [me EXCEPT !.pc = "store",
                                    !.err = TRUE, !.failed = TRUE]]
                  /\ UNCHANGED <<backendVars, providerVars, uiVars>>
             [] OTHER ->
                  /\ CtxSignOutFinish(t, [me EXCEPT !.out = "threw", !.failed = TRUE])
                  /\ UNCHANGED backendVars
    /\ UNCHANGED <<envVars, storeVars, storeCallVars, hash, bootVars, calls>>

CtxSignOutBackend(t) ==
    /\ tasks[t].op = "ctxSignOut"
    /\ tasks[t].pc = "backend"
    /\ LET me == [tasks[t] EXCEPT !.called = TRUE]
       IN \E o \in BackendOutcomes :
           CASE o = "ok" ->
                  /\ CanEmit
                  /\ supaSession' = NoSession
                  /\ events' = Emit(events, "SIGNED_OUT", NoSession)
                  /\ tasks' = [tasks EXCEPT ![t] = [me EXCEPT !.pc = "store",
                                                        !.emits = 1]]
                  /\ UNCHANGED <<providerVars, uiVars>>
             [] o = "error" ->
                  /\ CtxSignOutFinish(t, [me EXCEPT !.out = "returned",
                         !.err = TRUE, !.failed = TRUE])
                  /\ UNCHANGED backendVars
             [] OTHER ->
                  /\ CtxSignOutFinish(t, [me EXCEPT !.out = "threw", !.failed = TRUE])
                  /\ UNCHANGED backendVars
    /\ UNCHANGED <<envVars, storeVars, storeCallVars, hash, bootVars, calls>>

CtxSignOutStore(t) ==
    /\ tasks[t].op = "ctxSignOut"
    /\ tasks[t].pc = "store"
    /\ \E f \in {"ok", "failed"} :
        asyncStore' = IF f = "ok" THEN signOutRemoves(asyncStore) ELSE asyncStore
    /\ CtxSignOutFinish(t, [tasks[t] EXCEPT !.out = "returned"])
    /\ UNCHANGED <<envVars, localStore, memoryStorage, secureStore, storeCallVars,
                   backendVars, hash, bootVars, calls>>

----------------------------------------------------------------------------
(* ProfileScreen.handleSignOut, profile.js:60-121: calls the backend       *)
(* directly and then navigates; on web the navigation is an assignment to  *)
(* window.location.href, which loads the page again.                       *)

\* a page load: every component mounts again with its initial state, the
\* calls of the old page and its in-memory store are gone
PageReload(t, done) ==
    /\ route' = LoginRoute
    /\ authSession' = NoSession
    /\ user' = NoUser
    /\ isLoading' = TRUE
    /\ login' = LoginDefaults
    /\ events' = <<>>
    /\ initAuth' = BootStart
    /\ sessionHandler' = BootStart
    /\ initializing' = TRUE
    /\ memoryStorage' = EmptyStore
    /\ tasks' = [x \in Slots |-> IF x = 0 THEN done ELSE IdleTask]
    /\ UNCHANGED alert

\* router.replace('/auth/login') on native
NavigateLogin(t, done) ==
    /\ Commit(isLoading, LoginRoute, login, [tasks EXCEPT ![t] = done])
    /\ UNCHANGED <<authSession, user, alert, bootVars, memoryStorage>>

\* the handler ends without navigating
StayOnProfile(t, done, newAlert) ==
    /\ alert' = newAlert
    /\ tasks' = Settle([tasks EXCEPT ![t] = done])
    /\ UNCHANGED <<providerVars, route, login, bootVars, memoryStorage>>

ProfileSignOutStart(t) ==
    /\ ProfileVisible
    /\ FreeSlot(t)
    /\ calls' = calls + 1
    /\ tasks' = [tasks EXCEPT ![t] =
          [NewTask("handleSignOut", user.email) EXCEPT !.pc =
              IF user.provider = "google" /\ ~isWeb /\ GoogleSignin
              THEN "google" ELSE "backend"]]
    /\ UNCHANGED <<envVars, storeVars, storeCallVars, backendVars, providerVars,
                   uiVars, hash, bootVars>>

ProfileSignOutBackend(t) ==
    /\ tasks[t].op = "handleSignOut"
    /\ tasks[t].pc = "backend"
    /\ LET me == [tasks[t] EXCEPT !.called = TRUE]
           ok == Done([me EXCEPT !.out = "returned", !.emits = 1])
       IN \E o \in BackendOutcomes, f \in {"ok", "throw"} :
           CASE o = "ok" /\ isWeb /\ hasLocalStorage /\ f = "ok" ->
                  /\ supaSession' = NoSession
                  /\ localStore' = Del(localStore, "supabase.auth.token")
                  /\ PageReload(t, ok)
             [] o = "ok" /\ isWeb /\ ~(hasLocalStorage /\ f = "ok") ->
                  /\ CanEmit
                  /\ supaSession' = NoSession
                  /\ events' = Emit(events, "SIGNED_OUT", NoSession)
                  /\ StayOnProfile(t, ok, alert)
                  /\ UNCHANGED localStore
             [] o = "ok" /\ ~isWeb ->
                  /\ CanEmit
                  /\ supaSession' = NoSession
                  /\ events' = Emit(events, "SIGNED_OUT", NoSession)
                  /\ NavigateLogin(t, ok)
                  /\ UNCHANGED localStore
             [] o = "error" ->
                  /\ StayOnProfile(t, Done([me EXCEPT !.out = "returned",
                         !.err = TRUE, !.failed = TRUE]), "Error")
                  /\ UNCHANGED <<backendVars, localStore>>
             [] OTHER ->
                  /\ StayOnProfile(t, [me EXCEPT !.pc = "emergency",
                         !.failed = TRUE], "Error")
                  /\ UNCHANGED <<backendVars, localStore>>
    /\ UNCHANGED <<envVars, asyncStore, secureStore, storeCallVars, hash, calls>>

\* the fallback of the catch block, profile.js:107-117
ProfileSignOutEmergency(t) ==
    /\ tasks[t].op = "handleSignOut"
    /\ tasks[t].pc = "emergency"
    /\ LET me == tasks[t]
           done == Done([me EXCEPT !.out = "returned"])
       IN \E o \in BackendOutcomes :
           CASE o = "throw" ->
                  /\ StayOnProfile(t, done, alert)
                  /\ UNCHANGED backendVars
             [] o # "throw" /\ isWeb ->
                  /\ supaSession' = IF o = "ok" THEN NoSession ELSE supaSession
                  /\ PageReload(t, [done EXCEPT !.emits = IF o = "ok" THEN 1 ELSE 0])
             [] OTHER ->
                  /\ o = "ok" => CanEmit
                  /\ supaSession' = IF o = "ok" THEN NoSession ELSE supaSession
                  /\ events' = IF o = "ok" THEN Emit(events, "SIGNED_OUT", NoSession)
                               ELSE events
                  /\ NavigateLogin(t, [done EXCEPT !.emits = IF o = "ok" THEN 1 ELSE 0])
    /\ UNCHANGED <<envVars, localStore, asyncStore, secureStore, storeCallVars,
                   hash, calls>>

----------------------------------------------------------------------------
(* LoginScreen.handleGoogleSignIn (login.js:81-104) calling                *)
(* auth.signInWithGoogle (part_000:44-127)                                 *)

\* login.js:88-98 after the call has returned; the call never throws
GoogleFinish(t, done) ==
    /\ alert' = IF ~isWeb /\ done.err THEN "Sign In Error" ELSE alert
    /\ Commit(isLoading, route,
              IF isWeb THEN login
              ELSE setLogin(t, [login EXCEPT !.googleLoading = FALSE]),
              [tasks EXCEPT ![t] = Done([done EXCEPT !.out = "returned"])])

\* the browser leaves the application for the provider's consent page
PageLeave(t, done) ==
    /\ route' = ExternalRoute
    /\ login' = LoginDefaults
    /\ events' = <<>>
    /\ initAuth' = [initAuth EXCEPT !.pc = "done"]
    /\ sessionHandler' = [sessionHandler EXCEPT !.pc = "done"]
    /\ tasks' = [x \in Slots |-> IF x = 0 THEN done ELSE IdleTask]
    /\ UNCHANGED <<supaSession, providerVars, alert, initializing>>

\* signInWithGoogle without the test of GoogleSignin at part_000:69-75
HandleGoogleSignInStart_noGuard(t) ==
    /\ LoginVisible(isLoading, route)
    /\ FreeSlot(t)
    /\ calls' = calls + 1
    /\ tasks' = [tasks EXCEPT ![t] =
           [NewTask("handleGoogleSignIn", "") EXCEPT !.pc =
               IF isWeb THEN "oauth"
               ELSE IF platform = "android" THEN "playServices"
               ELSE "googleUi"]]
    /\ login' = [login EXCEPT !.googleLoading = TRUE]
    /\ UNCHANGED <<envVars, storeVars, storeCallVars, backendVars, providerVars,
                   route, alert, hash, bootVars>>

HandleGoogleSignInStart(t) ==
    /\ LoginVisible(isLoading, route)
    /\ FreeSlot(t)
    /\ calls' = calls + 1
    /\ LET new == [NewTask("handleGoogleSignIn", "") EXCEPT !.pc =
                      IF isWeb THEN "oauth"
                      ELSE IF platform = "android" THEN "playServices"
                      ELSE "googleUi"]
       IN IF ~isWeb /\ ~GoogleSignin
          THEN /\ alert' = "Sign In Error"
               /\ tasks' = Settle([tasks EXCEPT ![t] = Done([new EXCEPT
                               !.out = "returned", !.err = TRUE,
                               !.google = "unavailable"])])
               /\ UNCHANGED login
          ELSE /\ tasks' = [tasks EXCEPT ![t] = new]
               /\ login' = [login EXCEPT !.googleLoading = TRUE]
               /\ UNCHANGED alert
    /\ UNCHANGED <<envVars, storeVars, storeCallVars, backendVars, providerVars,
                   route, hash, bootVars>>

GoogleOAuth(t) ==
    /\ tasks[t].op = "handleGoogleSignIn"
    /\ tasks[t].pc = "oauth"
    /\ \E o \in BackendOutcomes :
        IF o = "ok"
        THEN PageLeave(t, Done([tasks[t] EXCEPT !.out = "returned"]))
        ELSE /\ GoogleFinish(t, [tasks[t] EXCEPT !.err = TRUE, !.failed = TRUE])
             /\ UNCHANGED <<backendVars, authSession, user, bootVars>>
    /\ UNCHANGED <<envVars, storeVars, storeCallVars, hash, calls>>

GooglePlayServices(t) ==
    /\ tasks[t].op = "handleGoogleSignIn"
    /\ tasks[t].pc = "playServices"
    /\ \E g \in {"ok", "failed"} :
        IF g = "ok"
        THEN /\ tasks' = [tasks EXCEPT ![t] = [@ EXCEPT !.pc = "googleUi"]]
             /\ UNCHANGED <<isLoading, route, login, alert>>
        ELSE GoogleFinish(t, [tasks[t] EXCEPT !.err = TRUE, !.google = "failed"])
    /\ UNCHANGED <<envVars, storeVars, storeCallVars, backendVars, authSession,
                   user, hash, bootVars, calls>>

\* the Google UI step without the idToken check
GoogleUi_noCheck(t) ==
    /\ tasks[t].op = "handleGoogleSignIn"
    /\ tasks[t].pc = "googleUi"
    /\ \E g \in {"token", "noToken", "throw"}, e \in {GoogleAccount} :
        IF g # "throw"
        THEN /\ tasks' = [tasks EXCEPT ![t] = [@ EXCEPT !.pc = "backend",
                              !.email = e, !.google = g]]
             /\ UNCHANGED <<isLoading, route, login, alert>>
        ELSE GoogleFinish(t, [tasks[t] EXCEPT !.err = TRUE, !.google = g])
    /\ UNCHANGED <<envVars, storeVars, storeCallVars, backendVars, authSession,
                   user, hash, bootVars, calls>>

\* await GoogleSignin.signIn(), then the idToken check of part_000:87-94
GoogleUi(t) ==
    /\ tasks[t].op = "handleGoogleSignIn"
    /\ tasks[t].pc = "googleUi"
    /\ \E g \in {"token", "noToken", "throw"}, e \in {GoogleAccount} :
        IF g = "token"
        THEN /\ tasks' = [tasks EXCEPT ![t] = [@ EXCEPT !.pc = "backend",
                              !.email = e, !.google = "token"]]
             /\ UNCHANGED <<isLoading, route, login, alert>>
        ELSE GoogleFinish(t, [tasks[t] EXCEPT !.err = TRUE, !.google = g])
    /\ UNCHANGED <<envVars, storeVars, storeCallVars, backendVars, authSession,
                   user, hash, bootVars, calls>>

\* supabase.auth.signInWithIdToken
GoogleBackend(t) ==
    /\ tasks[t].op = "handleGoogleSignIn"
    /\ tasks[t].pc = "backend"
    /\ LET me == [tasks[t] EXCEPT !.called = TRUE]
           granted == GoogleSession(me.email)
       IN \E o \in BackendOutcomes :
           IF o = "ok"
           THEN /\ CanEmit
                /\ supaSession' = granted
                /\ events' = Emit(events, "SIGNED_IN", granted)
                /\ tasks' = [tasks EXCEPT ![t] = [me EXCEPT !.pc = "store",
                       !.session = granted, !.usr = granted.user, !.emits = 1]]
                /\ UNCHANGED <<isLoading, route, login, alert>>
           ELSE /\ GoogleFinish(t, [me EXCEPT !.err = TRUE, !.failed = TRUE])
                /\ UNCHANGED backendVars
    /\ UNCHANGED <<envVars, storeVars, storeCallVars, authSession, user, hash,
                   bootVars, calls>>

GoogleStore(t) ==
    /\ tasks[t].op = "handleGoogleSignIn"
    /\ tasks[t].pc = "store"
    /\ LET me == tasks[t]
           writes == signInWrites(Now, me.usr.email, "google")
       IN \E ok \in 0..Len(writes) :
           /\ asyncStore' = writeMetadata(asyncStore, writes, ok)
           /\ GoogleFinish(t, [me EXCEPT !.wrote = writtenKeys(writes, ok)])
    /\ UNCHANGED <<envVars, localStore, memoryStorage, secureStore, storeCallVars,
                   backendVars, authSession, user, hash, bootVars, calls>>

----------------------------------------------------------------------------
(* The token-only Google sign-in: AuthProvider.signInWithGoogle            *)
(* (storage.js:667-675) calling auth.signInWithGoogle(accessToken)         *)
(* (part_001:52-77)                                                        *)

TokenGoogleFinish(t, done) ==
    /\ Commit(FALSE, route, login, [tasks EXCEPT ![t] = Done(done)])
    /\ UNCHANGED alert

TokenGoogleStart(t) ==
    /\ LoginVisible(isLoading, route)
    /\ FreeSlot(t)
    /\ calls' = calls + 1
    /\ \E e \in {GoogleAccount} :
        Commit(TRUE, route, login,
               [tasks EXCEPT ![t] = NewTask("ctxSignInWithGoogle", e)])
    /\ UNCHANGED <<envVars, storeVars, storeCallVars, backendVars, authSession,
                   user, alert, hash, bootVars>>

TokenGoogleBackend(t) ==
    /\ tasks[t].op = "ctxSignInWithGoogle"
    /\ tasks[t].pc = "backend"
    /\ LET me == tasks[t]
           granted == GoogleSession(me.email)
       IN \E o \in BackendOutcomes :
           CASE o = "ok" ->
                  /\ CanEmit
                  /\ supaSession' = granted
                  /\ events' = Emit(events, "SIGNED_IN", granted)
                  /\ tasks' = [tasks EXCEPT ![t] = [me EXCEPT !.pc = "store",
                         !.session = granted, !.usr = granted.user, !.emits = 1]]
                  /\ UNCHANGED <<isLoading, route, login, alert>>
             [] o = "error" ->
                  /\ TokenGoogleFinish(t, [me EXCEPT !.out = "returned",
                         !.err = TRUE, !.failed = TRUE])
                  /\ UNCHANGED backendVars
             [] OTHER ->
                  /\ TokenGoogleFinish(t, [me EXCEPT !.out = "threw", !.failed = TRUE])
                  /\ UNCHANGED backendVars
    /\ UNCHANGED <<envVars, storeVars, storeCallVars, authSession, user, hash,
                   bootVars, calls>>

TokenGoogleStore(t) ==
    /\ tasks[t].op = "ctxSignInWithGoogle"
    /\ tasks[t].pc = "store"
    /\ LET me == tasks[t]
           writes == signInWrites(Now, me.usr.email, "google")
       IN \E ok \in 0..Len(writes) :
           /\ asyncStore' = writeMetadata(asyncStore, writes, ok)
           /\ TokenGoogleFinish(t, [me EXCEPT !.out = "returned",
                  !.wrote = writtenKeys(writes, ok)])
    /\ UNCHANGED <<envVars, localStore, memoryStorage, secureStore, storeCallVars,
                   backendVars, authSession, user, hash, bootVars, calls>>

----------------------------------------------------------------------------
(* Password reset: LoginScreen.handleForgotPassword (login.js:145-170)     *)
(* calling auth.resetPassword (part_000:311-316), and                      *)
(* ResetPasswordScreen.handleResetPassword (reset-password.js:35-76)       *)
(* calling auth.updatePassword (part_000:321-326).  Both operations return *)
(* the backend's result as it is and have no try / catch.                  *)

ResetVisible == ~isLoading /\ route = ResetRoute

\* the user follows the recovery link to the reset screen
OpenResetScreen ==
    /\ LoginVisible(isLoading, route)
    /\ Commit(isLoading, ResetRoute, login, tasks)
    /\ UNCHANGED <<envVars, storeVars, storeCallVars, backendVars, authSession,
                   user, alert, hash, bootVars, calls>>

PasswordStart(t) ==
    /\ FreeSlot(t)
    /\ \E op \in {"resetPassword", "updatePassword"}, valid \in BOOLEAN :
        /\ IF op = "resetPassword" THEN LoginVisible(isLoading, route)
           ELSE ResetVisible
        /\ IF valid
           THEN /\ calls' = calls + 1
                /\ tasks' = [tasks EXCEPT ![t] = NewTask(op, "a@x.com")]
                /\ login' = IF op = "resetPassword"
                            THEN [login EXCEPT !.loading = TRUE] ELSE login
                /\ UNCHANGED alert
           ELSE /\ alert' = "Error"
                /\ UNCHANGED <<tasks, login, calls>>
    /\ UNCHANGED <<envVars, storeVars, storeCallVars, backendVars, providerVars,
                   route, hash, bootVars>>

PasswordBackend(t) ==
    /\ tasks[t].op \in {"resetPassword", "updatePassword"}
    /\ tasks[t].pc = "backend"
    /\ LET me == tasks[t]
       IN \E o \in BackendOutcomes :
           /\ alert' = IF o # "ok" THEN "Error"
                       ELSE IF me.op = "resetPassword" THEN "Reset Email Sent"
                       ELSE "Success"
           /\ Commit(isLoading, route,
                     IF me.op = "resetPassword"
                     THEN setLogin(t, [login EXCEPT !.loading = FALSE]) ELSE login,
                     [tasks EXCEPT ![t] = Done([me EXCEPT
                         !.out = IF o = "throw" THEN "threw" ELSE "returned",
                         !.err = (o = "error"), !.failed = (o # "ok")])])
    /\ UNCHANGED <<envVars, storeVars, storeCallVars, backendVars, authSession,
                   user, hash, bootVars, calls>>

\* the 'Sign In' button of the success alert, reset-password.js:63-66
PressSignIn ==
    /\ ResetVisible
    /\ alert = "Success"
    /\ alert' = "none"
    /\ Commit(isLoading, LoginRoute, login, tasks)
    /\ UNCHANGED <<envVars, storeVars, storeCallVars, backendVars, authSession,
                   user, hash, bootVars, calls>>

----------------------------------------------------------------------------
(* The Credential Store driven by an arbitrary caller *)

Platforms == {"web", "ios", "android"}

\* localStorage is synchronous: it throws or works; the in-memory object
\* always works; the native primitives return promises: they throw, reject
\* or resolve
Outcomes ==
    IF isWeb THEN (IF hasLocalStorage THEN {"ok", "throw"} ELSE {"ok"})
    ELSE PrimOutcomes

\* no store holds any of the keys
absentKeys(keys) ==
    \A k \in keys : /\ localStore[k] = NULL /\ memoryStorage[k] = NULL
                    /\ asyncStore[k] = NULL /\ secureStore[k] = NULL

\* The last call: the operation, its keys, the outcome f of the primitive,
\* what the caller received (out, val) and whether the keys were absent
\* from every store when the call was made.
NoStoreRes == [op |-> "none", keys |-> {}, f |-> "ok", out |-> "none",
               val |-> NULL, absent |-> TRUE]

StoreCall(op, keys, f, r) ==
    /\ storeOps < MaxStoreOps
    /\ storeOps' = storeOps + 1
    /\ SetStores(r.stores)
    /\ storeRes' = [op |-> op, keys |-> keys, f |-> f, out |-> r.out,
                    val |-> r.val, absent |-> absentKeys(keys)]
    /\ UNCHANGED <<envVars, appVars>>

AdapterGetItem ==
    \E key \in StoreKeys, f \in Outcomes :
        StoreCall("getItem", {key}, f, getItem(Stores, key, f))

AdapterSetItem ==
    \E key \in StoreKeys, v \in AppValues, f \in Outcomes :
        StoreCall("setItem", {key}, f, setItem(Stores, key, v, f))

AdapterRemoveItem ==
    \E key \in StoreKeys, f \in Outcomes :
        StoreCall("removeItem", {key}, f, removeItem(Stores, key, f))

StorageSave ==
    \E key \in StoreKeys, v \in AppValues, f \in Outcomes :
        StoreCall("save", {key}, f, save(Stores, key, v, f))

StorageGet ==
    \E key \in StoreKeys, f \in Outcomes :
        StoreCall("get", {key}, f, get(Stores, key, f))

StorageRemove ==
    \E key \in StoreKeys, f \in Outcomes :
        StoreCall("remove", {key}, f, remove(Stores, key, f))

StorageSaveSecure ==
    \E key \in StoreKeys, v \in AppValues, f \in Outcomes :
        StoreCall("saveSecure", {key}, f, saveSecure(Stores, key, v, f))

StorageGetSecure ==
    \E key \in StoreKeys, parse \in BOOLEAN, f \in Outcomes :
        StoreCall("getSecure", {key}, f, getSecure(Stores, key, parse, f))

StorageRemoveSecure ==
    \E key \in StoreKeys, f \in Outcomes :
        StoreCall("removeSecure", {key}, f, removeSecure(Stores, key, f))

StorageClearMultiple ==
    \E keys \in SUBSET StoreKeys, f \in Outcomes :
        StoreCall("clearMultiple", keys, f, clearMultiple(Stores, keys, f))

\* Android differs from iOS only in the Play Services check of
\* signInWithGoogle (part_000:78)
InitEnv ==
    /\ platform \in {"web", "ios"}
    /\ hasLocalStorage \in (IF isWeb THEN BOOLEAN ELSE {FALSE})
    /\ GoogleSignin \in (IF isWeb THEN {FALSE} ELSE BOOLEAN)

InitStores ==
    /\ localStore = EmptyStore
    /\ memoryStorage = EmptyStore
    /\ asyncStore = EmptyStore
    /\ secureStore = EmptyStore
    /\ storeRes = NoStoreRes
    /\ storeOps = 0

vars == <<platform, hasLocalStorage, GoogleSignin, localStore, memoryStorage,
          asyncStore, secureStore, storeRes, storeOps, supaSession, events,
          authSession, user, isLoading, route, login, alert, hash, initAuth,
          sessionHandler, initializing, tasks, calls>>

InitStore ==
    /\ platform \in Platforms
    /\ hasLocalStorage \in (IF isWeb THEN BOOLEAN ELSE {FALSE})
    /\ GoogleSignin \in (IF isWeb THEN {FALSE} ELSE BOOLEAN)
    /\ InitStores
    /\ InitApp

NextStore ==
    \/ AdapterGetItem
    \/ AdapterSetItem
    \/ AdapterRemoveItem
    \/ StorageSave
    \/ StorageGet
    \/ StorageRemove
    \/ StorageSaveSecure
    \/ StorageGetSecure
    \/ StorageRemoveSecure
    \/ StorageClearMultiple

SpecStore == InitStore /\ [][NextStore]_vars

----------------------------------------------------------------------------
(* Properties of the Credential Store *)

TypeOKStore ==
    /\ platform \in Platforms
    /\ storeRes.out \in {"none", "value", "undefined", "null", "okpair",
                         "datapair", "errpair", "rejected"}

----------------------------------------------------------------------------
(* Bootstrap on web with a redirect fragment in the address *)

HashValues ==
    {h \in [present : {TRUE}, access_token : {NULL, "", "T1"},
            refresh_token : {NULL, "T2"},
            error : {NULL, "access_denied", "bad_access_token"},
            search : {""}] : TRUE}
        \cup {NoHash}

PersistedSessions == {NoSession, EmailSession(EarlierAccount)}

InitBoot ==
    /\ platform = "web"
    /\ hasLocalStorage \in BOOLEAN
    /\ GoogleSignin = FALSE
    /\ InitStores
    /\ supaSession \in PersistedSessions
    /\ events = <<>>
    /\ authSession = NoSession
    /\ user = NoUser
    /\ isLoading = TRUE
    /\ route = HomeRoute
    /\ login = LoginDefaults
    /\ alert = "none"
    /\ hash \in HashValues
    /\ initAuth = BootStart
    /\ sessionHandler = BootStart
    /\ initializing = TRUE
    /\ tasks = [t \in Slots |-> IdleTask]
    /\ calls = 0

NextBoot ==
    \/ MountSessionHandler
    \/ SessionHandlerSetSession
    \/ SessionHandlerGetSession
    \/ MountAuthProvider
    \/ InitAuthSetSession
    \/ InitAuthGetSession
    \/ AuthStateListener
    \/ RedirectEffect

SpecBoot == InitBoot /\ [][NextBoot]_vars

----------------------------------------------------------------------------
(* The application from its mount, without a redirect fragment *)

\* what an earlier run that ended signed in left in the general store
PersistedMetadata ==
    [EmptyStore EXCEPT !["lastSignIn"] = Earlier, !["userEmail"] = EarlierAccount,
                       !["authProvider"] = "email"]

Init ==
    /\ InitEnv
    /\ localStore = EmptyStore
    /\ memoryStorage = EmptyStore
    /\ secureStore = EmptyStore
    /\ storeRes = NoStoreRes
    /\ storeOps = 0
    /\ supaSession \in PersistedSessions
    /\ asyncStore = IF supaSession = NoSession THEN EmptyStore ELSE PersistedMetadata
    /\ events = <<>>
    /\ authSession = NoSession
    /\ user = NoUser
    /\ isLoading = TRUE
    /\ route = HomeRoute
    /\ login = LoginDefaults
    /\ alert = "none"
    /\ hash = NoHash
    /\ initAuth = BootStart
    /\ sessionHandler = BootStart
    /\ initializing = TRUE
    /\ tasks = [t \in Slots |-> IdleTask]
    /\ calls = 0

Next ==
    \/ MountSessionHandler
    \/ SessionHandlerGetSession
    \/ MountAuthProvider
    \/ InitAuthGetSession
    \/ AuthStateListener
    \/ RedirectEffect
    \/ ToggleLoginMode
    \/ \E t \in Tasks : HandleEmailAuthStart(t)
    \/ \E t \in Tasks : EmailAuthBackend(t)
    \/ \E t \in Tasks : EmailAuthStore(t)
    \/ \E t \in Tasks : CtxSignOutStart(t)
    \/ \E t \in Tasks : ProviderSignOut(t)
    \/ \E t \in Tasks : CtxSignOutBackend(t)
    \/ \E t \in Tasks : CtxSignOutStore(t)
    \/ \E t \in Tasks : ProfileSignOutStart(t)
    \/ \E t \in Tasks : ProfileSignOutBackend(t)
    \/ \E t \in Tasks : ProfileSignOutEmergency(t)

Spec == Init /\ [][Next]_vars

----------------------------------------------------------------------------
(* The Google sign-in paths, from the login screen *)

NextGoogle ==
    \/ MountSessionHandler
    \/ SessionHandlerGetSession
    \/ MountAuthProvider
    \/ InitAuthGetSession
    \/ AuthStateListener
    \/ RedirectEffect
    \/ \E t \in Tasks : HandleGoogleSignInStart(t)
    \/ \E t \in Tasks : GoogleOAuth(t)
    \/ \E t \in Tasks : GooglePlayServices(t)
    \/ \E t \in Tasks : GoogleUi(t)
    \/ \E t \in Tasks : GoogleBackend(t)
    \/ \E t \in Tasks : GoogleStore(t)
    \/ \E t \in Tasks : TokenGoogleStart(t)
    \/ \E t \in Tasks : TokenGoogleBackend(t)
    \/ \E t \in Tasks : TokenGoogleStore(t)

InitGoogle ==
    /\ platform \in Platforms
    /\ hasLocalStorage \in (IF isWeb THEN BOOLEAN ELSE {FALSE})
    /\ GoogleSignin \in (IF isWeb THEN {FALSE} ELSE BOOLEAN)
    /\ InitStores
    /\ InitApp

SpecGoogle == InitGoogle /\ [][NextGoogle]_vars

----------------------------------------------------------------------------
(* The password reset paths.  Neither operation signs anybody in or out,  *)
(* so no notification is pending in these behaviours.                     *)

NextPassword ==
    \/ MountSessionHandler
    \/ SessionHandlerGetSession
    \/ MountAuthProvider
    \/ InitAuthGetSession
    \/ RedirectEffect
    \/ OpenResetScreen
    \/ PressSignIn
    \/ \E t \in Tasks : PasswordStart(t)
    \/ \E t \in Tasks : PasswordBackend(t)

SpecPassword == Init /\ [][NextPassword]_vars

----------------------------------------------------------------------------
(* Properties of the Credential Store, checked under SpecStore *)

RemoveOps == {"removeItem", "remove", "removeSecure", "clearMultiple"}

\* the step is a call of one of the removal operations
RemoveStep == storeOps' = storeOps + 1 /\ storeRes'.op \in RemoveOps

\* C7: whenever the storage primitive under a Credential Store operation
\* fails, by a synchronous throw or an asynchronous rejection, the caller
\* receives null or an error value and never an exception or a rejected
\* promise.
C7_PrimitiveFailureIsAValue ==
    storeRes.f # "ok" => storeRes.out \in {"null", "errpair"}

\* C9: a removal whose keys are in no store completes without an error on
\* every branch, no removal changes a key other than its own, and removing
\* the same keys a second time gives the same result and changes nothing.
C9_RemoveAbsentSucceeds ==
    [][RemoveStep =>
        /\ \A k \in AllKeys \ storeRes'.keys :
              /\ localStore'[k] = localStore[k]
              /\ memoryStorage'[k] = memoryStorage[k]
              /\ asyncStore'[k] = asyncStore[k]
              /\ secureStore'[k] = secureStore[k]
        /\ (storeRes'.f = "ok" /\ storeRes'.absent) =>
              /\ storeRes'.out \in {"undefined", "okpair"}
              /\ UNCHANGED storeVars
        /\ (/\ storeRes'.f = "ok" /\ storeRes.f = "ok"
            /\ storeRes.op = storeRes'.op /\ storeRes.keys = storeRes'.keys) =>
              /\ storeRes'.out = storeRes.out
              /\ UNCHANGED storeVars]_vars

\* a removal of keys held nowhere has succeeded while another key is stored
C9_Witness ==
    /\ storeRes.op \in RemoveOps
    /\ storeRes.keys # {}
    /\ storeRes.absent
    /\ storeRes.f = "ok"
    /\ storeRes.out \in {"undefined", "okpair"}
    /\ \E k \in AllKeys \ storeRes.keys :
          \/ localStore[k] # NULL \/ memoryStorage[k] # NULL
          \/ asyncStore[k] # NULL \/ secureStore[k] # NULL

----------------------------------------------------------------------------
(* Properties of the bootstrap with a redirect fragment, under SpecBoot *)

BootDone == initAuth.pc = "done" /\ sessionHandler.pc = "done"

\* the notifications the two bootstrap flows caused
BootNotifications ==
    (IF initAuth.via = "setSession" /\ ~initAuth.err THEN 1 ELSE 0)
    + (IF sessionHandler.via = "setSession" THEN 1 ELSE 0)

\* C2: a sign-in completed through the web redirect fragment, like every
\* successful sign-in, causes exactly one notification carrying the new
\* session and leaves lastSignIn, userEmail and authProvider in the store.
C2_SignInNotifiesOnceAndRecords ==
    (BootDone /\ initAuth.via = "setSession" /\ ~initAuth.err) =>
        /\ BootNotifications = 1
        /\ \A k \in {"lastSignIn", "userEmail", "authProvider"} :
              asyncStore[k] # NULL \/ localStore[k] # NULL \/ memoryStorage[k] # NULL

\* C4: with access_token=T1 and refresh_token=T2 in the fragment the session
\* is set from exactly that pair, the refresh token defaulting to '', and
\* once bootstrap is over the fragment is gone from the address whether
\* set-session succeeded, returned an error or threw.
C4_FragmentConsumed ==
    /\ (initAuth.via = "setSession" /\ ~initAuth.err) =>
          /\ initAuth.session.access = "T1"
          /\ initAuth.session.refresh \in {"T2", ""}
    /\ (BootDone /\ initAuth.at # NULL) => hash = NoHash

\* the fragment carries an error parameter and no access_token
ErrorOnlyHash == hash.present /\ hash.error # NULL /\ hash.access_token = NULL

\* C5: with an error parameter and no access_token in the fragment neither
\* bootstrap flow sets a session, nothing is notified, getSession does not
\* throw and returns the result of the standard session retrieval.
C5_ErrorFragmentFallsThrough ==
    ErrorOnlyHash =>
        /\ initAuth.pc # "setSession" /\ sessionHandler.pc # "setSession"
        /\ initAuth.at = NULL /\ sessionHandler.at = NULL
        /\ events = <<>>
        /\ supaSession \in PersistedSessions
        /\ authSession \in {NoSession, supaSession}
        /\ initAuth.out # "threw"
        /\ initAuth.pc = "done" =>
              /\ initAuth.out = "returned"
              /\ initAuth.via = "getSession"
              /\ initAuth.session = (IF initAuth.err THEN NoSession ELSE supaSession)

\* bootstrap is over for a fragment that held only an error
C5_Witness ==
    /\ ErrorOnlyHash
    /\ BootDone
    /\ initAuth.via = "getSession"
    /\ initAuth.out = "returned"

----------------------------------------------------------------------------
(* Properties of the application, checked under Spec *)

\* the step starts an email sign-in in slot t
SignInStartStep(t) ==
    /\ tasks[t].pc = "done"
    /\ tasks'[t].op = "handleEmailAuth" /\ tasks'[t].pc = "backend"
    /\ tasks'[t].isLogin

\* the step ends the email sign-in of slot t with the backend's rejection
SignInRejectStep(t) ==
    /\ tasks[t].op = "handleEmailAuth" /\ tasks[t].pc = "backend"
    /\ tasks[t].isLogin
    /\ tasks'[t].pc = "done"
    /\ tasks'[0].op = "handleEmailAuth" /\ tasks'[0].out = "returned"
    /\ tasks'[0].failed

\* C1: an email sign-in that the backend rejects returns a non-null error,
\* and neither its start nor its end changes the context's authSession and
\* user or the client's current session.
C1_RejectedSignInKeepsSession ==
    [][\A t \in Tasks :
        /\ (SignInStartStep(t) \/ SignInRejectStep(t)) =>
              /\ authSession' = authSession
              /\ user' = user
              /\ supaSession' = supaSession
              /\ events' = events
        /\ SignInRejectStep(t) => tasks'[0].err]_vars

\* a rejected sign-in has returned while a session was current
C1_Witness ==
    /\ tasks[0].op = "handleEmailAuth" /\ tasks[0].isLogin
    /\ tasks[0].out = "returned" /\ tasks[0].failed /\ tasks[0].err
    /\ authSession # NoSession

\* C3: once a sign-out has returned, through the context or through the
\* profile screen's handler, whatever the provider and whether or not the
\* backend sign-out succeeded, the store holds none of lastSignIn,
\* userEmail, userPreferences and authProvider.
C3_SignOutClearsMetadata ==
    (tasks[0].op \in {"ctxSignOut", "handleSignOut"} /\ tasks[0].out = "returned") =>
        \A k \in MetadataKeys : asyncStore[k] = NULL

\* C6: every auth operation gives its caller a result and never throws,
\* whatever the backend call did, and the error of the result is non-null
\* exactly when the backend call failed.
C6_OperationsReturnResults ==
    tasks[0].op \in {"handleEmailAuth", "ctxSignOut"} =>
        /\ tasks[0].out = "returned"
        /\ tasks[0].err <=> tasks[0].failed

\* the step ends the sign-up of slot t whose result has a user and no session
SignUpConfirmStep(t) ==
    /\ tasks[t].op = "handleEmailAuth" /\ tasks[t].pc = "store"
    /\ ~tasks[t].isLogin
    /\ tasks[t].usr # NoUser /\ tasks[t].session = NoSession
    /\ tasks'[t].pc = "done"
    /\ tasks'[0].op = "handleEmailAuth" /\ tasks'[0].out = "returned"

----------------------------------------------------------------------------
(* Properties of the stores on native, checked under SpecGoogle *)

\* C8: on native a key containing auth, token or refresh is held only in
\* the secure store and every other key only in the general store, the
\* keys written by the auth operations included.
C8_SensitiveKeysInSecureStoreOnly ==
    ~isWeb => \A k \in AllKeys :
        /\ isSensitiveKey(k) => asyncStore[k] = NULL
        /\ ~isSensitiveKey(k) => secureStore[k] = NULL

----------------------------------------------------------------------------
(* Properties of the AuthProvider state, checked under Spec *)

\* the sessions the backend can have issued, each as one whole value
IssuedSessions ==
    {EmailSession(e) : e \in Emails \cup {EarlierAccount}}

\* C11: the AuthProvider holds at most one session, and a newly installed
\* session replaces the old one whole: authSession is null or one issued
\* session with no field of another, and user is the user of authSession,
\* null when authSession is null.
C11_OneSessionNoMerge ==
    /\ authSession \in IssuedSessions \cup {NoSession}
    /\ user = authSession.user
    /\ authSession = NoSession => user = NoUser

\* the session bootstrap installed has been replaced by a later sign-in's
C11_Witness ==
    /\ initAuth.session = EmailSession(EarlierAccount)
    /\ authSession = EmailSession("a@x.com")
    /\ user = MkUser("a@x.com", "email")

\* the step loads the page again: a new AuthProvider starts from its
\* initial state
ReloadStep == initAuth # BootStart /\ initAuth' = BootStart

\* the step delivers the notification at the head of the queue
NotifiedStep == events # <<>> /\ events' = Tail(events)

\* the step ends initializeAuth with the result of auth.getSession
BootResultStep == initAuth.pc # "done" /\ initAuth'.pc = "done"

\* the step ends the call of slot t, whose record is then in slot 0
FinishStep(t) ==
    /\ tasks[t].op # "idle" /\ tasks[t].pc # "done"
    /\ tasks'[t].pc = "done"
    /\ tasks'[0].op = tasks[t].op
    /\ tasks'[0].out # "pending"

\* C12: within one page load the AuthProvider becomes authenticated only
\* by a notification or a bootstrap result that carries the session, becomes
\* unauthenticated only by a notification with a null session or by a
\* sign-out that returned without an error, and a sign-in, sign-up or
\* sign-out that failed leaves authSession as it was.
C12_StateMachine ==
    [][~ReloadStep =>
        /\ (authSession = NoSession /\ authSession' # NoSession) =>
              \/ NotifiedStep /\ Head(events).session = authSession'
              \/ BootResultStep /\ initAuth'.session = authSession'
        /\ (authSession # NoSession /\ authSession' = NoSession) =>
              \/ NotifiedStep /\ Head(events).session = NoSession
              \/ \E t \in Tasks :
                    /\ FinishStep(t) /\ tasks[t].op = "ctxSignOut"
                    /\ tasks'[0].out = "returned" /\ ~tasks'[0].failed
        /\ \A t \in Tasks :
              (FinishStep(t) /\ tasks'[0].failed) =>
                  authSession' = authSession /\ user' = user]_vars

\* bootstrap authenticated the client and a sign-out that succeeded
\* made it unauthenticated again
C12_Witness ==
    /\ initAuth.session # NoSession
    /\ tasks[0].op = "ctxSignOut"
    /\ tasks[0].out = "returned" /\ ~tasks[0].failed
    /\ authSession = NoSession

----------------------------------------------------------------------------
(* auth.handleAuthDeepLink (part_000:338-365), called with an incoming URL *)
(* on a native platform                                                    *)

\* the index of the first c in s at or after i, 0 when there is none
RECURSIVE IndexOf(_, _, _)
IndexOf(s, c, i) ==
    IF i > Len(s) THEN 0
    ELSE IF SubSeq(s, i, i) = c THEN i
    ELSE IndexOf(s, c, i + 1)

\* new URL(url) throws unless the string starts with a scheme
parsesAsUrl(s) ==
    LET colon == IndexOf(s, ":", 1)
        slash == IndexOf(s, "/", 1)
        mark == IndexOf(s, "?", 1)
    IN  /\ colon > 1
        /\ slash = 0 \/ colon < slash
        /\ mark = 0 \/ colon < mark

\* the query of a URL: what follows the first ?
queryOf(s) ==
    LET mark == IndexOf(s, "?", 1)
    IN  IF mark = 0 THEN "" ELSE SubSeq(s, mark + 1, Len(s))

\* the path of scheme://host/path?query, with its leading /
pathOf(s) ==
    LET colon == IndexOf(s, ":", 1)
        mark == IndexOf(s, "?", 1)
        stop == IF mark = 0 THEN Len(s) ELSE mark - 1
        slash == IndexOf(s, "/", colon + 3)
    IN  IF slash = 0 \/ slash > stop THEN "" ELSE SubSeq(s, slash, stop)

\* URLSearchParams.get: the value of the first name=value pair, or null
RECURSIVE searchParam(_, _)
searchParam(q, name) ==
    IF q = "" THEN NULL
    ELSE LET amp == IndexOf(q, "&", 1)
             first == IF amp = 0 THEN q ELSE SubSeq(q, 1, amp - 1)
             rest == IF amp = 0 THEN "" ELSE SubSeq(q, amp + 1, Len(q))
             eq == IndexOf(first, "=", 1)
             key == IF eq = 0 THEN first ELSE SubSeq(first, 1, eq - 1)
             val == IF eq = 0 THEN "" ELSE SubSeq(first, eq + 1, Len(first))
         IN IF key = name THEN val ELSE searchParam(rest, name)

\* part_000:340: the test made on the whole string
mentionsAuthLink(url) ==
    includes(url, "verify-email") \/ includes(url, "reset-password")

\* the URLs a deep link can carry: with or without a scheme, with a path,
\* and a query of some of next, access_token, refresh_token and type
DeepLinkPaths == {"/verify-email", "/reset-password", "/home"}

QueryParam(k, v) == IF v = NULL THEN "" ELSE k \o "=" \o v \o "&"

DeepLinkUrls ==
    {(IF scheme THEN "app://host" ELSE "") \o path \o "?"
        \o QueryParam("next", next) \o QueryParam("access_token", at)
        \o QueryParam("refresh_token", rt) \o QueryParam("type", ty) \o "v=1" :
        scheme \in BOOLEAN, path \in DeepLinkPaths,
        next \in {NULL, "reset-password"}, at \in {NULL, "T1"},
        rt \in {NULL, "T2"}, ty \in {NULL, "recovery"}}

\* the handler returns without awaiting anything
DeepLinkReturn(t, done) ==
    /\ tasks' = Settle([tasks EXCEPT ![t] = Done(done)])
    /\ UNCHANGED <<backendVars, providerVars, uiVars>>

DeepLinkStart(t) ==
    /\ FreeSlot(t)
    /\ calls' = calls + 1
    /\ \E url \in DeepLinkUrls :
        LET me == [IdleTask EXCEPT !.op = "handleAuthDeepLink",
                                   !.pc = "setSession", !.url = url]
            q == queryOf(url)
        IN  IF ~mentionsAuthLink(url)
            THEN DeepLinkReturn(t, [me EXCEPT !.out = "returned"])
            ELSE IF ~parsesAsUrl(url)
            THEN DeepLinkReturn(t, [me EXCEPT !.out = "returned", !.err = TRUE,
                                       !.type = "error"])
            ELSE IF Truthy(searchParam(q, "access_token"))
                    /\ Truthy(searchParam(q, "type"))
            THEN /\ tasks' = [tasks EXCEPT ![t] = [me EXCEPT !.called = TRUE]]
                 /\ UNCHANGED <<backendVars, providerVars, uiVars>>
            ELSE DeepLinkReturn(t, [me EXCEPT !.out = "returned"])
    /\ UNCHANGED <<envVars, storeVars, storeCallVars, hash, bootVars>>

DeepLinkSetSession(t) ==
    /\ tasks[t].op = "handleAuthDeepLink"
    /\ tasks[t].pc = "setSession"
    /\ LET me == tasks[t]
           q == queryOf(me.url)
           at == searchParam(q, "access_token")
           rt == orEmpty(searchParam(q, "refresh_token"))
           ty == searchParam(q, "type")
       IN \E o \in BackendOutcomes :
           CASE o = "ok" ->
                  /\ CanEmit
                  /\ supaSession' = setSessionResult(at, rt)
                  /\ events' = Emit(events, "SIGNED_IN", supaSession')
                  /\ tasks' = Settle([tasks EXCEPT ![t] = Done([me EXCEPT
                         !.out = "returned", !.type = ty, !.emits = 1,
                         !.session = supaSession'])])
             [] o = "error" ->
                  /\ tasks' = Settle([tasks EXCEPT ![t] = Done([me EXCEPT
                         !.out = "returned", !.type = ty, !.err = TRUE,
                         !.failed = TRUE])])
                  /\ UNCHANGED backendVars
             [] OTHER ->
                  /\ tasks' = Settle([tasks EXCEPT ![t] = Done([me EXCEPT
                         !.out = "returned", !.type = "error", !.err = TRUE,
                         !.failed = TRUE])])
                  /\ UNCHANGED backendVars
    /\ UNCHANGED <<envVars, storeVars, storeCallVars, providerVars, uiVars, hash,
                   bootVars, calls>>

InitDeepLink ==
    /\ platform \in {"ios", "android"}
    /\ hasLocalStorage = FALSE
    /\ GoogleSignin = TRUE
    /\ InitStores
    /\ InitApp

NextDeepLink ==
    \/ MountSessionHandler
    \/ MountAuthProvider
    \/ InitAuthGetSession
    \/ AuthStateListener
    \/ RedirectEffect
    \/ \E t \in Tasks : DeepLinkStart(t)
    \/ \E t \in Tasks : DeepLinkSetSession(t)

SpecDeepLink == InitDeepLink /\ [][NextDeepLink]_vars

----------------------------------------------------------------------------
(* Properties of the deep-link handler, checked under SpecDeepLink *)

\* the record of a handleAuthDeepLink call that has returned
DeepLinkDone == tasks[0].op = "handleAuthDeepLink" /\ tasks[0].out = "returned"

\* the path of the URL names email verification or password recovery
pathIndicatesAuth(url) ==
    /\ parsesAsUrl(url)
    /\ includes(pathOf(url), "verify-email") \/ includes(pathOf(url), "reset-password")

\* access_token and type are both in the query of the URL
hasTokenAndType(url) ==
    /\ Truthy(searchParam(queryOf(url), "access_token"))
    /\ Truthy(searchParam(queryOf(url), "type"))

\* C13: for a URL whose path indicates verify-email or reset-password the
\* handler calls set-session with the URL's access_token and refresh_token,
\* the latter defaulting to '', exactly when access_token and type are both
\* present, and then returns the type parameter unless the call threw; for
\* a URL that mentions verify-email or reset-password only outside its path
\* it installs nothing and returns null.
C13_DeepLinkByPath ==
    DeepLinkDone =>
        LET url == tasks[0].url
            q == queryOf(url)
        IN  /\ pathIndicatesAuth(url) =>
                  /\ tasks[0].called <=> hasTokenAndType(url)
                  /\ tasks[0].session # NoSession =>
                        /\ tasks[0].session.access = searchParam(q, "access_token")
                        /\ tasks[0].session.refresh = orEmpty(searchParam(q, "refresh_token"))
                  /\ (tasks[0].called /\ tasks[0].type # "error") =>
                        tasks[0].type = searchParam(q, "type")
            /\ (parsesAsUrl(url) /\ ~pathIndicatesAuth(url)) =>
                  /\ ~tasks[0].called
                  /\ tasks[0].session = NoSession
                  /\ tasks[0].type = NULL

\* C14: for a deep link that lacks access_token or type, or that does not
\* parse as a URL, the handler installs no session and returns the null of
\* 'nothing to act on', never a value with an error.
C14_MalformedIsNotAnError ==
    (DeepLinkDone /\ (~parsesAsUrl(tasks[0].url) \/ ~hasTokenAndType(tasks[0].url))) =>
        /\ ~tasks[0].called
        /\ tasks[0].session = NoSession
        /\ ~tasks[0].err
        /\ tasks[0].type = NULL

----------------------------------------------------------------------------
(* Properties of the two bootstrap flows together, checked under SpecBoot *)

\* the set-session calls made for the fragment of this page load
SetSessionCalls ==
    (IF sessionHandler.at # NULL THEN 1 ELSE 0)
    + (IF initAuth.at # NULL THEN 1 ELSE 0)

\* C15: for one page load with an access_token fragment, SessionHandler and
\* the AuthProvider bootstrap together call set-session at most once, and
\* when both are done the fragment is no longer in the address for a later
\* pass to see.
C15_FragmentConsumedOnce ==
    /\ SetSessionCalls <= 1
    /\ (BootDone /\ SetSessionCalls > 0) => ~hash.present

----------------------------------------------------------------------------
(* Properties of sign-out on native, checked under Spec *)

\* C17: on native a sign-out attempts the provider sign-out, when the SDK
\* is there, before it calls the backend sign-out; every sign-out that has
\* ended has called the backend sign-out, whether the provider sign-out
\* succeeded, failed or was unavailable; and the error auth.signOut returns
\* is non-null only when the backend sign-out failed, never because the
\* provider sign-out did.
C17_ProviderThenBackend ==
    ~isWeb => \A t \in Slots :
        LET r == tasks[t]
        IN  r.op \in {"ctxSignOut", "handleSignOut"} =>
              /\ r.pc = "google" => (~r.called /\ r.google = "none")
              /\ r.google # "none" => GoogleSignin
              /\ (r.op = "ctxSignOut" /\ GoogleSignin /\ r.pc # "google") =>
                    r.google # "none"
              /\ (r.out # "pending" \/ r.pc \in {"store", "emergency"}) => r.called
              /\ (r.op = "ctxSignOut" /\ r.out = "returned") => (r.err <=> r.failed)

\* auth.signOut has returned without an error although the provider
\* sign-out before its backend call failed
C17_Witness ==
    /\ ~isWeb
    /\ tasks[0].op = "ctxSignOut"
    /\ tasks[0].google = "failed"
    /\ tasks[0].called
    /\ tasks[0].out = "returned" /\ ~tasks[0].err

----------------------------------------------------------------------------
(* Properties of the native Google sign-in, checked under SpecGoogle *)

\* C18: on native, when the Google sign-in UI returns no identity token,
\* signInWithGoogle ends there with a non-null error: it has not called the
\* backend token exchange, has installed no session, has caused no
\* notification and has written no key, and the step that ends it leaves
\* the client's session, the AuthProvider and every store as they were.
C18_NoIdTokenIsAnError ==
    [][\A t \in Slots :
        tasks'[t].google = "noToken" =>
            /\ ~isWeb
            /\ tasks'[t].pc = "done" /\ tasks'[t].out = "returned"
            /\ tasks'[t].err
            /\ ~tasks'[t].called
            /\ tasks'[t].session = NoSession
            /\ tasks'[t].emits = 0
            /\ tasks'[t].wrote = {}
            /\ tasks[t].google # "noToken" =>
                  UNCHANGED <<backendVars, authSession, user, storeVars>>]_vars

\* the Google UI returned no identity token and the call returned an error
C18_Witness ==
    /\ ~isWeb
    /\ tasks[0].op = "handleGoogleSignIn"
    /\ tasks[0].google = "noToken"
    /\ tasks[0].out = "returned" /\ tasks[0].err
    /\ alert = "Sign In Error"

----------------------------------------------------------------------------
(* auth.hasPreviousSignIn (part_000:132-142), called by an arbitrary       *)
(* caller; the function has no try / catch                                 *)

\* the boolean as text
BoolStr(b) == IF b THEN "true" ELSE "false"

\* part_000:135-136 with !!data in the place of !!data?.session
webHasPrevious_data(resolved, session) == BoolStr(TRUE)

\* part_000:135-136: !!data?.session of the result of supabase.auth.getSession
webHasPrevious(resolved, session) == BoolStr(resolved /\ session # NoSession)

\* the query returns or throws without changing anything else
QueryReturn(t, done) ==
    /\ tasks' = Settle([tasks EXCEPT ![t] = Done(done)])
    /\ UNCHANGED <<envVars, storeVars, storeCallVars, backendVars, providerVars,
                   uiVars, hash, bootVars>>

HasPreviousSignInStart(t) ==
    /\ FreeSlot(t)
    /\ calls' = calls + 1
    /\ LET me == [IdleTask EXCEPT !.op = "hasPreviousSignIn", !.pc = "getSession"]
       IN IF isWeb
          THEN /\ tasks' = [tasks EXCEPT ![t] = me]
               /\ UNCHANGED <<envVars, storeVars, storeCallVars, backendVars,
                              providerVars, uiVars, hash, bootVars>>
          ELSE IF GoogleSignin
          THEN \E flag \in {"true", "false", "throw"} :
                  IF flag = "throw"
                  THEN QueryReturn(t, [me EXCEPT !.out = "threw", !.google = flag])
                  ELSE QueryReturn(t, [me EXCEPT !.out = "returned",
                                          !.google = flag, !.ret = flag])
          ELSE QueryReturn(t, [me EXCEPT !.out = "returned", !.ret = "false"])

\* await supabase.auth.getSession() on web
HasPreviousSignInGetSession(t) ==
    /\ tasks[t].op = "hasPreviousSignIn"
    /\ tasks[t].pc = "getSession"
    /\ UNCHANGED calls
    /\ \E o \in BackendOutcomes :
        LET me == [tasks[t] EXCEPT !.called = TRUE, !.failed = (o # "ok")]
        IN  IF o = "throw"
            THEN QueryReturn(t, [me EXCEPT !.out = "threw"])
            ELSE QueryReturn(t, [me EXCEPT !.out = "returned",
                     !.ret = webHasPrevious(o = "ok", supaSession)])

----------------------------------------------------------------------------
(* The native application with or without the provider SDK: bootstrap,     *)
(* Google sign-in, sign-out and hasPreviousSignIn                          *)

InitSdk ==
    /\ platform \in {"ios", "android"}
    /\ hasLocalStorage = FALSE
    /\ GoogleSignin \in BOOLEAN
    /\ localStore = EmptyStore
    /\ memoryStorage = EmptyStore
    /\ secureStore = EmptyStore
    /\ storeRes = NoStoreRes
    /\ storeOps = 0
    /\ supaSession \in PersistedSessions
    /\ asyncStore = IF supaSession = NoSession THEN EmptyStore ELSE PersistedMetadata
    /\ events = <<>>
    /\ authSession = NoSession
    /\ user = NoUser
    /\ isLoading = TRUE
    /\ route = HomeRoute
    /\ login = LoginDefaults
    /\ alert = "none"
    /\ hash = NoHash
    /\ initAuth = BootStart
    /\ sessionHandler = BootStart
    /\ initializing = TRUE
    /\ tasks = [t \in Slots |-> IdleTask]
    /\ calls = 0

NextSdk ==
    \/ MountSessionHandler
    \/ MountAuthProvider
    \/ InitAuthGetSession
    \/ AuthStateListener
    \/ RedirectEffect
    \/ \E t \in Tasks : HandleGoogleSignInStart(t)
    \/ \E t \in Tasks : GooglePlayServices(t)
    \/ \E t \in Tasks : GoogleUi(t)
    \/ \E t \in Tasks : GoogleBackend(t)
    \/ \E t \in Tasks : GoogleStore(t)
    \/ \E t \in Tasks : CtxSignOutStart(t)
    \/ \E t \in Tasks : ProviderSignOut(t)
    \/ \E t \in Tasks : CtxSignOutBackend(t)
    \/ \E t \in Tasks : CtxSignOutStore(t)
    \/ \E t \in Tasks : HasPreviousSignInStart(t)

SpecSdk == InitSdk /\ [][NextSdk]_vars

\* C19: on native without the provider SDK, signInWithGoogle returns the
\* 'not available' error at once, without a provider or backend call, and
\* its step leaves the client's session, the notifications, the
\* AuthProvider and every store as they were; initGoogleSignIn returns
\* without configuring anything and handleSession goes on to its end;
\* hasPreviousSignIn returns false; and a sign-out makes no provider call
\* and still calls the backend sign-out.
C19_SdkAbsentDegrades ==
    [][(~isWeb /\ ~GoogleSignin) =>
        /\ (tasks'[0].op = "handleGoogleSignIn" /\ tasks'[0] # tasks[0]) =>
                 /\ tasks'[0].out = "returned" /\ tasks'[0].err
                 /\ tasks'[0].google = "unavailable"
                 /\ ~tasks'[0].called
                 /\ tasks'[0].session = NoSession /\ tasks'[0].wrote = {}
                 /\ UNCHANGED <<backendVars, authSession, user, storeVars>>
        /\ \A t \in Slots : tasks'[t].op = "handleGoogleSignIn" => tasks'[t].pc = "done"
        /\ (sessionHandler.pc = "mount" /\ sessionHandler'.pc # "mount") =>
              /\ sessionHandler'.pc = "done" /\ ~sessionHandler'.configured
              /\ initializing' = FALSE
        /\ tasks'[0].op = "hasPreviousSignIn" =>
              /\ tasks'[0].out = "returned" /\ tasks'[0].ret = "false"
              /\ tasks'[0].google = "none"
        /\ \A t \in Slots :
              tasks'[t].op = "ctxSignOut" =>
                 /\ tasks'[t].google = "none"
                 /\ (tasks'[t].out # "pending" \/ tasks'[t].pc = "store") =>
                        tasks'[t].called]_vars

\* without the SDK a sign-out has called the backend and returned, and a
\* Google sign-in after it was refused as not available
C19_Witness ==
    /\ ~isWeb /\ ~GoogleSignin
    /\ sessionHandler.pc = "done" /\ ~sessionHandler.configured
    /\ tasks[0].op = "handleGoogleSignIn"
    /\ tasks[0].google = "unavailable" /\ tasks[0].err
    /\ supaSession = NoSession
    /\ asyncStore["authProvider"] = NULL
    /\ alert = "Sign In Error"

----------------------------------------------------------------------------
(* The queries auth.getSession (called by initializeAuth) and              *)
(* auth.hasPreviousSignIn on every platform and for every fragment         *)

InitQuery ==
    /\ platform \in Platforms
    /\ hasLocalStorage \in (IF isWeb THEN BOOLEAN ELSE {FALSE})
    /\ GoogleSignin \in (IF isWeb THEN {FALSE} ELSE BOOLEAN)
    /\ InitStores
    /\ supaSession \in PersistedSessions
    /\ events = <<>>
    /\ authSession = NoSession
    /\ user = NoUser
    /\ isLoading = TRUE
    /\ route = HomeRoute
    /\ login = LoginDefaults
    /\ alert = "none"
    /\ hash \in (IF isWeb THEN HashValues ELSE {NoHash})
    /\ initAuth = BootStart
    /\ sessionHandler = BootStart
    /\ initializing = TRUE
    /\ tasks = [t \in Slots |-> IdleTask]
    /\ calls = 0

NextQuery ==
    \/ MountSessionHandler
    \/ SessionHandlerSetSession
    \/ SessionHandlerGetSession
    \/ MountAuthProvider
    \/ InitAuthSetSession
    \/ InitAuthGetSession
    \/ AuthStateListener
    \/ RedirectEffect
    \/ \E t \in Tasks : HasPreviousSignInStart(t)
    \/ \E t \in Tasks : HasPreviousSignInGetSession(t)

SpecQuery == InitQuery /\ [][NextQuery]_vars

\* a step of the call of auth.getSession that initializeAuth makes
GetSessionStep == initAuth' # initAuth

\* a step of a call of auth.hasPreviousSignIn
HasPreviousStep ==
    \/ \E t \in Tasks : tasks'[t].op = "hasPreviousSignIn" /\ tasks[t].op = "idle"
    \/ \E t \in Tasks : tasks[t].op = "hasPreviousSignIn" /\ tasks'[t] # tasks[t]
    \/ tasks'[0].op = "hasPreviousSignIn" /\ tasks'[0] # tasks[0]

\* the client's session with its notifications, the stores and the address
\* are as they were
ReadOnlyStep == UNCHANGED <<supaSession, events, storeVars, hash>>

\* what a hasPreviousSignIn that has ended returned: the SDK's flag on
\* native with the SDK, false without it, and on web true exactly when
\* the backend resolved a session
HasPreviousAnswer ==
    (tasks'[0].op = "hasPreviousSignIn" /\ tasks'[0] # tasks[0]
        /\ tasks'[0].out = "returned") =>
       tasks'[0].ret =
          IF isWeb
          THEN BoolStr(~tasks'[0].failed /\ supaSession # NoSession)
          ELSE IF GoogleSignin THEN tasks'[0].google ELSE "false"

\* C20 as stated: no step of getSession or of hasPreviousSignIn, on any
\* platform and for any fragment, changes the client's session, a store or
\* the address, and hasPreviousSignIn answers with the SDK's flag on native
\* and, on web, true exactly when a session resolves.
C20_QueriesAreReadOnly ==
    [][/\ (GetSessionStep \/ HasPreviousStep) => ReadOnlyStep
       /\ HasPreviousAnswer]_vars

\* C20 amended: hasPreviousSignIn changes nothing on any platform and for
\* any fragment, and getSession changes nothing unless it runs on web and
\* found an access_token in the fragment when it was called: then it sets
\* the client's session from those tokens and removes the fragment.  hasPreviousSignIn
\* answers with the SDK's flag on native (false without the SDK) and, on
\* web, true exactly when a session resolves.
C20_ReadOnlyWithoutTokenFragment ==
    [][/\ HasPreviousStep => ReadOnlyStep
       /\ (GetSessionStep /\ initAuth'.at = NULL) => ReadOnlyStep
       /\ (GetSessionStep /\ ~ReadOnlyStep) =>
             /\ isWeb /\ Truthy(initAuth.at)
             /\ initAuth.pc = "setSession"
             /\ hash' = NoHash
             /\ UNCHANGED storeVars
             /\ supaSession' # supaSession =>
                   supaSession' = setSessionResult(initAuth.at, initAuth.rt)
       /\ HasPreviousAnswer]_vars

\* on web hasPreviousSignIn has answered true with a session resolving,
\* after a getSession on an address without a fragment returned it
C20_Witness ==
    /\ isWeb
    /\ initAuth.pc = "done" /\ initAuth.via = "getSession" /\ initAuth.at = NULL
    /\ initAuth.session # NoSession
    /\ tasks[0].op = "hasPreviousSignIn"
    /\ tasks[0].out = "returned" /\ tasks[0].ret = "true"
    /\ supaSession # NoSession

----------------------------------------------------------------------------
(* Two sign-ins with different accounts whose executions overlap           *)
(* (login.js:106-143, AuthContext.js:69-77, part_000:243-268)              *)

OverlapEmails == {"a@x.com", "c@x.com"}

OverlapEmailAuthStart(t) ==
    /\ LoginVisible(isLoading, route)
    /\ EmailAuthStartWith(t, OverlapEmails)

NextOverlap ==
    \/ MountSessionHandler
    \/ SessionHandlerGetSession
    \/ MountAuthProvider
    \/ InitAuthGetSession
    \/ AuthStateListener
    \/ RedirectEffect
    \/ \E t \in Tasks : OverlapEmailAuthStart(t)
    \/ \E t \in Tasks : EmailAuthBackend(t)
    \/ \E t \in Tasks : EmailAuthStore(t)

SpecOverlap == Init /\ [][NextOverlap]_vars

\* the call in slot t returns while no other call is in flight, after an
\* earlier sign-in has returned
LastReturnStep(t) ==
    /\ FinishStep(t)
    /\ \A u \in Tasks \ {t} : tasks[u].pc = "done"
    /\ tasks[0].op = "handleEmailAuth"

\* C21 as stated: of two sign-ins that both succeeded, the client's session
\* after both have returned is the one of the call that returned last.
C21_LastReturnWins ==
    [][\A t \in Tasks :
        (LastReturnStep(t) /\ tasks[0].session # NoSession
            /\ tasks'[0].session # NoSession) =>
           supaSession' = tasks'[0].session]_vars

\* C21 amended: a second sign-in started while the first is in flight is
\* not blocked or de-duplicated, it can always take its backend step; each
\* call returns the session of its own account or none; and the client's
\* session is set by the backend step of a call that succeeds, to that
\* call's session, and by no other step, so after both calls it is the one
\* of the call whose backend call resolved last, in whatever order the two
\* calls return.
C21_LastBackendResultWins ==
    [][/\ \A t \in Tasks :
            /\ (tasks[t].op = "handleEmailAuth" /\ tasks[t].pc = "backend") =>
                  ENABLED EmailAuthBackend(t)
            /\ FinishStep(t) =>
                  tasks'[0].session \in {NoSession, EmailSession(tasks[t].email)}
            /\ (tasks[t].pc = "backend" /\ tasks'[t].pc = "store"
                   /\ tasks'[t].session # NoSession) =>
                  supaSession' = tasks'[t].session
       /\ supaSession' # supaSession =>
             \E t \in Tasks : /\ tasks[t].pc = "backend" /\ tasks'[t].pc = "store"
                              /\ tasks'[t].session = supaSession']_vars

\* two sign-ins overlapped, both succeeded, and the one that returned last
\* is not the one whose session the client holds
C21_Witness ==
    /\ calls = 2
    /\ \A t \in Tasks : tasks[t].pc = "done"
    /\ tasks[0].op = "handleEmailAuth" /\ tasks[0].out = "returned"
    /\ tasks[0].session # NoSession
    /\ supaSession \in {EmailSession(e) : e \in OverlapEmails}
    /\ supaSession # tasks[0].session

----------------------------------------------------------------------------
(* The auth operations that write or remove metadata after their backend   *)
(* call: sign-up, sign-in, native Google sign-in and sign-out              *)

NextWrites ==
    \/ MountSessionHandler
    \/ MountAuthProvider
    \/ InitAuthGetSession
    \/ AuthStateListener
    \/ RedirectEffect
    \/ ToggleLoginMode
    \/ \E t \in Tasks : HandleEmailAuthStart(t)
    \/ \E t \in Tasks : EmailAuthBackend(t)
    \/ \E t \in Tasks : EmailAuthStore(t)
    \/ \E t \in Tasks : HandleGoogleSignInStart(t)
    \/ \E t \in Tasks : GooglePlayServices(t)
    \/ \E t \in Tasks : GoogleUi(t)
    \/ \E t \in Tasks : GoogleBackend(t)
    \/ \E t \in Tasks : GoogleStore(t)
    \/ \E t \in Tasks : CtxSignOutStart(t)
    \/ \E t \in Tasks : ProviderSignOut(t)
    \/ \E t \in Tasks : CtxSignOutBackend(t)
    \/ \E t \in Tasks : CtxSignOutStore(t)

SpecWrites == InitSdk /\ [][NextWrites]_vars

\* the metadata writes or the removal of the call in slot t take place
StoreStep(t) == tasks[t].pc = "store" /\ tasks'[t].pc = "done"

\* C22: the step that makes the metadata writes (or the removal) of a
\* sign-up, sign-in, Google sign-in or sign-out returns the result the
\* backend call produced, without an error, however many of the writes
\* succeed, and leaves the client's session and its notifications alone.
C22_WritesDoNotChangeResult ==
    [][\A t \in Tasks :
        (StoreStep(t) /\ tasks[t].op \in {"handleEmailAuth", "handleGoogleSignIn",
                                           "ctxSignOut"}) =>
            /\ tasks'[0].op = tasks[t].op
            /\ tasks'[0].out = "returned"
            /\ ~tasks'[0].err /\ ~tasks'[0].failed
            /\ tasks'[0].session = tasks[t].session
            /\ tasks'[0].usr = tasks[t].usr
            /\ UNCHANGED backendVars]_vars

\* a sign-in returned its session without an error although not all of its
\* three writes succeeded
C22_Witness ==
    /\ tasks[0].op = "handleEmailAuth" /\ tasks[0].isLogin
    /\ tasks[0].out = "returned" /\ ~tasks[0].err
    /\ tasks[0].session # NoSession
    /\ tasks[0].wrote # {"lastSignIn", "userEmail", "authProvider"}

\* C23: a sign-up, sign-in, Google sign-in or sign-out whose backend call
\* failed ends at that step: the step changes no store, the call never
\* reaches its metadata writes or its removal, and it has written no key.
C23_FailedCallTouchesNoKey ==
    [][\A t \in Tasks :
        /\ (tasks[t].pc = "backend" /\ FinishStep(t) /\ tasks'[0].failed) =>
              /\ UNCHANGED storeVars
              /\ tasks'[0].wrote = {}
        /\ tasks'[t].failed => (tasks'[t].pc # "store" /\ tasks'[t].wrote = {})
        /\ tasks'[0].failed => tasks'[0].wrote = {}
        /\ (tasks[t].pc = "backend" /\ tasks'[t].pc = "store") =>
              (UNCHANGED storeVars /\ ~tasks'[t].failed)]_vars

\* the backend sign-out failed and the metadata of the session is still
\* in the store
C23_Witness ==
    /\ tasks[0].op = "ctxSignOut" /\ tasks[0].failed /\ tasks[0].called
    /\ asyncStore = PersistedMetadata
    /\ supaSession # NoSession

----------------------------------------------------------------------------
(* A web page load at any route of the application, with or without the    *)
(* fragment of a recovery link, and the password screens                   *)

RecoveryHashes == {h \in HashValues : h.error = NULL}

InitRecovery ==
    /\ platform = "web"
    /\ hasLocalStorage \in BOOLEAN
    /\ GoogleSignin = FALSE
    /\ InitStores
    /\ supaSession \in PersistedSessions
    /\ events = <<>>
    /\ authSession = NoSession
    /\ user = NoUser
    /\ isLoading = TRUE
    /\ route \in {HomeRoute, LoginRoute, ResetRoute}
    /\ login = LoginDefaults
    /\ alert = "none"
    /\ hash \in RecoveryHashes
    /\ initAuth = BootStart
    /\ sessionHandler = BootStart
    /\ initializing = TRUE
    /\ tasks = [t \in Slots |-> IdleTask]
    /\ calls = 0

NextRecovery ==
    \/ MountSessionHandler
    \/ SessionHandlerSetSession
    \/ SessionHandlerGetSession
    \/ MountAuthProvider
    \/ InitAuthSetSession
    \/ InitAuthGetSession
    \/ AuthStateListener
    \/ RedirectEffect
    \/ OpenResetScreen
    \/ PressSignIn
    \/ \E t \in Tasks : PasswordStart(t)
    \/ \E t \in Tasks : PasswordBackend(t)

SpecRecovery == InitRecovery /\ [][NextRecovery]_vars

\* a step of the redirect effect: the route changes, not to the reset
\* screen (OpenResetScreen) and not by the button of an alert (PressSignIn)
RedirectStep == route' # route /\ route' # ResetRoute /\ alert' = alert

\* C24: the redirect effect is due exactly when loading is over and either
\* nobody is authenticated and the route is outside the auth group or
\* somebody is authenticated and the route is inside it; its step goes to
\* /auth/login in the first case and to the home route in the second,
\* changes neither the session nor isLoading, and leaves a route for which,
\* with the same session, no further redirect is due.
C24_RedirectOnceToStableRoute ==
    [][/\ ENABLED RedirectEffect <=>
            /\ ~isLoading
            /\ \/ authSession = NoSession /\ ~inAuthGroup(route)
               \/ authSession # NoSession /\ inAuthGroup(route)
       /\ RedirectStep =>
            /\ ~isLoading
            /\ IF authSession = NoSession
               THEN ~inAuthGroup(route) /\ route' = LoginRoute
               ELSE inAuthGroup(route) /\ route' = HomeRoute
            /\ UNCHANGED <<authSession, user, isLoading>>
            /\ redirectTarget(authSession', isLoading', route') = route']_vars

\* an authenticated user who was inside the auth group has been sent to
\* the home route, where no redirect is due
C24_Witness ==
    /\ ~isLoading
    /\ authSession # NoSession
    /\ route = HomeRoute
    /\ initAuth.pc = "done" /\ sessionHandler.pc = "done"
    /\ hash = NoHash
    /\ ~ENABLED RedirectEffect

\* C25: while the session of the recovery link is the AuthProvider's
\* session and no updatePassword has completed, a user on
\* /auth/reset-password stays there.
C25_ResetScreenKeptUntilUpdate ==
    [][(/\ route = ResetRoute
        /\ authSession # NoSession /\ authSession.access = "T1"
        /\ tasks[0].op # "updatePassword") =>
           route' = ResetRoute]_vars

----------------------------------------------------------------------------
(* A web page load at an address with a query string *)

AddressValues ==
    {[h EXCEPT !.search = s] : h \in RecoveryHashes, s \in {"", "?ref=mail"}}

InitAddress ==
    /\ platform = "web"
    /\ hasLocalStorage \in BOOLEAN
    /\ GoogleSignin = FALSE
    /\ InitStores
    /\ supaSession \in PersistedSessions
    /\ events = <<>>
    /\ authSession = NoSession
    /\ user = NoUser
    /\ isLoading = TRUE
    /\ route = HomeRoute
    /\ login = LoginDefaults
    /\ alert = "none"
    /\ hash \in AddressValues
    /\ initAuth = BootStart
    /\ sessionHandler = BootStart
    /\ initializing = TRUE
    /\ tasks = [t \in Slots |-> IdleTask]
    /\ calls = 0

SpecAddress == InitAddress /\ [][NextBoot]_vars

\* C26: a step that takes the fragment off the address leaves its query
\* string and the path as they were and does not load the page again.
C26_ScrubKeepsPathAndQuery ==
    [][(hash.present /\ ~hash'.present) =>
          /\ hash'.search = hash.search
          /\ route' = route
          /\ initAuth'.pc # "mount" /\ sessionHandler'.pc # "mount"]_vars

----------------------------------------------------------------------------
(* Bootstrap on web with a sign-out that can be notified while the         *)
(* initial getSession is still pending                                     *)

NextStale ==
    \/ MountSessionHandler
    \/ SessionHandlerSetSession
    \/ SessionHandlerGetSession
    \/ MountAuthProvider
    \/ InitAuthSetSession
    \/ InitAuthGetSession
    \/ AuthStateListener
    \/ RedirectEffect
    \/ \E t \in Tasks : CtxSignOutStart(t)
    \/ \E t \in Tasks : CtxSignOutBackend(t)
    \/ \E t \in Tasks : CtxSignOutStore(t)

SpecStale == InitBoot /\ [][NextStale]_vars

----------------------------------------------------------------------------
(* Properties of the loading flag, checked under Spec *)

\* C28: isLoading is true whenever a signIn, signUp or signOut of the
\* context is in flight.
C28_LoadingWhileInFlight ==
    \A t \in Tasks :
        (tasks[t].op \in {"handleEmailAuth", "ctxSignOut"} /\ tasks[t].pc # "done")
            => isLoading

----------------------------------------------------------------------------
(* Progress of the AuthProvider: every awaited call settles, so the        *)
(* bootstrap flows and the continuations of the context's operations are   *)
(* taken when they are due; the user's actions are under no obligation.    *)

NextLive ==
    \/ MountSessionHandler
    \/ SessionHandlerGetSession
    \/ MountAuthProvider
    \/ InitAuthGetSession
    \/ AuthStateListener
    \/ RedirectEffect
    \/ ToggleLoginMode
    \/ \E t \in Tasks : HandleEmailAuthStart(t)
    \/ \E t \in Tasks : EmailAuthBackend(t)
    \/ \E t \in Tasks : EmailAuthStore(t)
    \/ \E t \in Tasks : CtxSignOutStart(t)
    \/ \E t \in Tasks : ProviderSignOut(t)
    \/ \E t \in Tasks : CtxSignOutBackend(t)
    \/ \E t \in Tasks : CtxSignOutStore(t)

Settles ==
    /\ WF_vars(MountSessionHandler)
    /\ WF_vars(SessionHandlerGetSession)
    /\ WF_vars(MountAuthProvider)
    /\ WF_vars(InitAuthGetSession)
    /\ \A t \in Tasks :
          /\ WF_vars(EmailAuthBackend(t))
          /\ WF_vars(EmailAuthStore(t))
          /\ WF_vars(ProviderSignOut(t))
          /\ WF_vars(CtxSignOutBackend(t))
          /\ WF_vars(CtxSignOutStore(t))

\* the platforms of Init with their storage and provider SDK available
InitLive ==
    /\ Init
    /\ isWeb => hasLocalStorage
    /\ ~isWeb => GoogleSignin

SpecLive == InitLive /\ [][NextLive]_vars /\ Settles

\* C29: whenever isLoading is true, at the mount of the AuthProvider and
\* during a signIn, signUp or signOut of the context, it becomes false
\* later, whatever the initial getSession and the backend calls return or
\* throw.
C29_LoadingEnds == isLoading ~> ~isLoading

\* the initial getSession ended with an error and the loading indicator
\* is gone
C29_Witness ==
    /\ initAuth.pc = "done" /\ initAuth.err
    /\ initAuth.session = NoSession
    /\ ~isLoading
    /\ authSession = NoSession

----------------------------------------------------------------------------
(* Properties of the Google button, checked under SpecGoogle *)

\* C30: when a Google sign-in attempt of the login screen on display ends
\* without the browser leaving the application, googleLoading is false
\* after the step that ends it, on web as on native and whatever the
\* attempt returned.
C30_GoogleLoadingReset ==
    [][\A t \in Tasks :
        (/\ FinishStep(t) /\ tasks[t].op = "handleGoogleSignIn"
         /\ tasks[t].mounted
         /\ route' # ExternalRoute) =>
            ~login'.googleLoading]_vars
====
